---- MODULE Spec2Model ----
(***************************************************************************)
(* Model of the analytics core of virtual-energy-trader:                   *)
(*   - transformGridStatusData (server/utils/marketData.js) fed by         *)
(*     GridStatusClient.getMarketPrices (server/services/gridstatus.js),   *)
(*   - simulateTradeExecution (server/utils/trading.js),                   *)
(*   - SpikeAnalyzer (server/services/spikeAnalyzer.js).                   *)
(* JavaScript numbers are modelled as exact rationals <<n, d>>, d > 0,     *)
(* in lowest terms.                                                        *)
(***************************************************************************)
EXTENDS Integers, Sequences, FiniteSets, TLC

VARIABLES
    \* --- reconstruction pipeline (getMarketPrices -> transformGridStatusData)
    path,           \* "direct" | "standard" | "netlify": how the transformer is reached
    fetchedDA,      \* raw day-ahead records returned by fetchDatasetData / passed by the caller
    fetchedRT,      \* raw real-time records returned by fetchDatasetData / passed by the caller
    dayAheadData,   \* first argument of transformGridStatusData
    realTimeData,   \* second argument of transformGridStatusData
    tz,             \* (userTimezone, date) case of the call
    seed,           \* outcome of the Math.random() draws of the call
    pc,             \* position of the request
    out,            \* value returned / error thrown
    \* --- settlement (simulateTradeExecution)
    bids,           \* argument bids
    daIn,           \* argument dayAheadPrices
    rtIn,           \* argument realTimePrices
    sim,            \* value returned by the last call
    calls,          \* number of calls made on these arguments
    \* --- spike detection (SpikeAnalyzer.detectSpikes)
    priceData,      \* argument priceData: per location a chronological price series
    thresholds,     \* argument thresholds, merged over DEFAULT_THRESHOLDS
    detection,      \* value returned / error thrown by detectSpikes
    \* --- grid events (SpikeAnalyzer.generateGridEvents)
    eventSpikes,    \* argument spikes
    events,         \* value returned by generateGridEvents
    \* --- trading hook (useTradingSimulation)
    hookBids,       \* the bids state after the queued setBids updaters
    renderedBids,   \* the bids the current closures of addBid / runSimulation see
    nextId,         \* counter behind generateBidId
    ops,            \* number of addBid / updateBid / removeBid calls made
    request,        \* bids of the simulation request sent by runSimulation
    \* --- rate limiting (GridStatusClient.makeRateLimitedRequest)
    limiter,        \* "simple": wrapper of lines 568-621; "queue": queue of lines 117-195 / 1047-1133
    clock,          \* Date.now(), in ms
    lastRequestTime,    \* this.lastRequestTime
    requestQueue,       \* this.requestQueue: the requests waiting for processQueue
    isProcessingQueue,  \* this.isProcessingQueue
    rpc,            \* position of each caller: in the wrapper, or at its await in getMarketPrices
    wakeAt,         \* expiry of the setTimeout each caller sleeps on or races against
    starts,         \* clock values at which requestFn() was started
    \* --- DataCache
    cache,          \* this.cache: key -> entry, or NoValue for an absent key
    cacheStats,     \* this.stats
    cacheNow,       \* Date.now(), in ms
    written,        \* per key, the data and time of the last set since the last clear()
    lastOp,         \* the last call made on the cache and the value it returned
    cacheOps,       \* number of calls made on the cache
    \* --- 429 handling (GridStatusClient.makeRateLimitedRequest, lines 568-621)
    retryScript,    \* what the upstream answers to the first and to the second requestFn()
    retryPc,        \* position of the call
    retryClock,     \* Date.now(), in ms
    retryLast,      \* this.lastRequestTime
    retryWake,      \* expiry of the setTimeout the call sleeps on
    retryCalls,     \* clock values at which requestFn() was invoked
    retryOut,       \* value returned / error thrown by the call
    \* --- request queue with timeouts and circuit breaker (lines 117-195, 1004-1133)
    qVersion,       \* 1: client of lines 10-195; 3: client of lines 888-1133
    qLoop,          \* position of the (single) running processQueue loop
    qReq,           \* per request: promise, timers, upstream call
    circuitBreaker, \* this.circuitBreaker
    qHist,          \* history: order of requestFn starts, overlap of upstream calls
    \* --- market data caching of the controllers (getMarketData, simulateTrades)
    ctrlCache,      \* the shared DataCache: key -> entry, or NoValue
    ctrlNow,        \* Date.now(), in ms
    ctrlFetches,    \* number of GridStatus calls made so far
    ctrlReq,        \* the request being handled
    ctrlLog,        \* what the last finished request found, did and left behind
    ctrlOps         \* number of requests handled

reconVars == <<path, fetchedDA, fetchedRT, dayAheadData, realTimeData, tz, seed, pc, out>>
settleVars == <<bids, daIn, rtIn, sim, calls>>
spikeVars == <<priceData, thresholds, detection, eventSpikes, events>>
hookVars == <<hookBids, renderedBids, nextId, ops, request>>
rateVars == <<limiter, clock, lastRequestTime, requestQueue, isProcessingQueue, rpc, wakeAt, starts>>
cacheVars == <<cache, cacheStats, cacheNow, written, lastOp, cacheOps>>
retryVars == <<retryScript, retryPc, retryClock, retryLast, retryWake, retryCalls, retryOut>>
queueVars == <<qVersion, qLoop, qReq, circuitBreaker, qHist>>
ctrlVars == <<ctrlCache, ctrlNow, ctrlFetches, ctrlReq, ctrlLog, ctrlOps>>
vars == <<reconVars, settleVars, spikeVars, hookVars, rateVars, cacheVars,
                 retryVars, queueVars, ctrlVars>>

----------------------------------------------------------------------------
(* Bounds of the model *)

\* longest raw input (day-ahead plus real-time records) of one request
MaxRecords == 2
\* longest bid list of one simulation
MaxBids == 2
\* calls of simulateTradeExecution made on the same arguments
MaxCalls == 2
\* samples of a price series after its first full window
MaxTail == 3
\* number of addBid / updateBid / removeBid calls on the trading hook
MaxHookOps == 2
\* number of clock ticks of a rate limiting run
MaxTicks == 22
\* number of calls made on a DataCache, and of clock ticks while it is used
MaxCacheOps == 4
MaxCacheTicks == 4

----------------------------------------------------------------------------
(* Exact rational arithmetic *)

RECURSIVE GCD(_, _)
GCD(a, b) == IF b = 0 THEN a ELSE GCD(b, a % b)

Abs(x) == IF x < 0 THEN -x ELSE x

RNorm(n, d) ==
    LET s == IF d < 0 THEN -1 ELSE 1
        g == GCD(Abs(n), Abs(d))
    IN  <<(s * n) \div g, (s * d) \div g>>

R(n) == <<n, 1>>
RAdd(a, b) == RNorm(a[1] * b[2] + b[1] * a[2], a[2] * b[2])
RSub(a, b) == RNorm(a[1] * b[2] - b[1] * a[2], a[2] * b[2])
RMul(a, b) == RNorm(a[1] * b[1], a[2] * b[2])
RDivI(a, k) == RNorm(a[1], a[2] * k)
RLt(a, b) == a[1] * b[2] < b[1] * a[2]
RLe(a, b) == a[1] * b[2] <= b[1] * a[2]
RAbs(a) == <<Abs(a[1]), a[2]>>

RECURSIVE RSum(_)
RSum(s) == IF s = <<>> THEN R(0) ELSE RAdd(s[1], RSum(Tail(s)))

\* prices.reduce((sum, p) => sum + p, 0) / prices.length
Average(s) == RDivI(RSum(s), Len(s))

----------------------------------------------------------------------------
(* Raw records *)

\* value of parseFloat on a field that holds no number ("n/a")
NaNPrice == -1000000
\* key "NaN" of hourlyData / hourlyRTData (getHours() of an Invalid Date)
NaNKey == 24
\* Math.floor(NaN / 15)
NaNInterval == 4

Hours == 0 .. 23
Intervals == 0 .. 3

\* A raw item: obj is "null" (null/undefined), "prim" (a number or string) or
\* "object"; ts is the first timestamp alias: "missing", "nonstring",
\* "bad" (a string Date cannot parse) or "ok" with Pacific wall clock h:m;
\* lmp and price are the first two price aliases (0 = absent or 0).
Item(obj, ts, h, m, lmp, price) ==
    [obj |-> obj, ts |-> ts, h |-> h, m |-> m, lmp |-> lmp, price |-> price]

NullItem == Item("null", "missing", 0, 0, 0, 0)
PrimItem == Item("prim", "missing", 0, 0, 0, 0)

DARecords ==
    { NullItem, PrimItem,
      Item("object", "bad", 0, 0, 20, 0),
      Item("object", "ok", 0, 0, NaNPrice, 20),
      Item("object", "ok", 0, 0, 10001, 0),
      Item("object", "ok", 0, 0, 20, 0),
      Item("object", "ok", 1, 0, 10000, 0),
      Item("object", "ok", 2, 0, 20, 0) }

RTRecords ==
    { NullItem,
      Item("object", "nonstring", 0, 0, 30, 0),
      Item("object", "bad", 0, 0, 30, 0),
      Item("object", "ok", 0, 0, -5, 0),
      Item("object", "ok", 0, 0, 30, 0),
      Item("object", "ok", 0, 5, 60, 0),
      Item("object", "ok", 2, 50, 60, 0) }

\* real-time records of hour 0 in all four quarter-hours (two in the first),
\* and the same without the last quarter-hour
FullHourRT ==
    << Item("object", "ok", 0, 0, 30, 0),
       Item("object", "ok", 0, 5, 60, 0),
       Item("object", "ok", 0, 20, 30, 0),
       Item("object", "ok", 0, 30, 0, 48),
       Item("object", "ok", 0, 59, 24, 0) >>

FullHours == { FullHourRT, SubSeq(FullHourRT, 1, 4) }

\* a record whose lmp field is present and holds 0, next to a price field
ZeroLmpItem ==
    [obj |-> "object", ts |-> "ok", h |-> 0, m |-> 0, lmp |-> 0, price |-> 40,
     lmpPresent |-> TRUE]

\* raw arrays of one record that differ in the first price alias only
AliasCases == { <<>>, <<ZeroLmpItem>>, <<Item("object", "ok", 0, 0, 0, 40)>> }

SeqsUpTo(S, n) == UNION { [1 .. k -> S] : k \in 0 .. n }

\* (userTimezone, date) cases.  zone: "same" (America/Los_Angeles, or a
\* timezone name toLocaleString rejects), "east3" (3 hours ahead all day),
\* "dst" (3 hours ahead, 4 during hours 2..4 of a transition day).  date:
\* "valid" (YYYY-MM-DD of a real day at most 7 days ahead), "future" (a real
\* day more than 7 days ahead), "unparseable" (a string Date cannot parse),
\* "missing" (null)
TzCase(zone, date) == [zone |-> zone, date |-> date]

TzCases == [zone : {"same", "east3", "dst"},
            date : {"valid", "future", "unparseable", "missing"}]

\* the cases transformGridStatusData tells apart
TransformCases ==
    { TzCase("same", "valid"), TzCase("east3", "valid"), TzCase("dst", "valid"),
      TzCase("east3", "unparseable") }

\* the cases validateDate tells apart, in Pacific time and 3 hours ahead
DateCases == { c \in TzCases : c.zone \in {"same", "east3"} }

\* outcomes of the Math.random() draws: (Math.random() - 0.5) * 5 of hour h,
\* interval i
Seeds == {0, 1}
Noise(sd, h, i) ==
    LET r == (sd + h + i) % 3
    IN  IF sd = 0 \/ r = 1 THEN R(0)
        ELSE IF r = 0 THEN <<-5, 2>>
        ELSE R(2)

----------------------------------------------------------------------------
(* transformGridStatusData: parsing *)

\* parseFloat(item.lmp || item.price || ... || 0)
ParsePrice(item) ==
    IF item.lmp # 0 THEN item.lmp
    ELSE IF item.price # 0 THEN item.price
    ELSE 0

\* isNaN(price) || price <= 0 || price > 10000
InvalidPrice(p) == p = NaNPrice \/ p <= 0 \/ p > 10000

\* !item || typeof item !== 'object'
NotAnObject(item) == item.obj # "object"

\* !timestamp || typeof timestamp !== 'string'
InvalidTimestamp(item) == item.ts \in {"missing", "nonstring"}

\* the forEach body returns before the push
Skipped(item) ==
    \/ NotAnObject(item)
    \/ InvalidTimestamp(item)
    \/ InvalidPrice(ParsePrice(item))

\* getPacificTimeHour(timestamp) / pacificTime.getHours()
PacificHour(item) == IF item.ts = "bad" THEN NaNKey ELSE item.h

\* Math.floor(pacificTime.getMinutes() / 15)
IntervalOf(item) == IF item.ts = "bad" THEN NaNInterval ELSE item.m \div 15

\* Object.keys(dayAheadData[0]) of the sample-record log
SampleLogThrows(data) == Len(data) > 0 /\ data[1].obj = "null"

\* hourlyData[k].prices after the day-ahead forEach
RECURSIVE BucketPrices(_, _)
BucketPrices(data, k) ==
    IF data = <<>> THEN <<>>
    ELSE LET item == Head(data)
             rest == BucketPrices(Tail(data), k)
         IN  IF ~Skipped(item) /\ PacificHour(item) = k
             THEN <<R(ParsePrice(item))>> \o rest
             ELSE rest

HourlyData(data) == [k \in 0 .. NaNKey |-> BucketPrices(data, k)]

\* hourlyRTData[k] after the real-time forEach: {interval, price} entries
RECURSIVE BucketRT(_, _)
BucketRT(data, k) ==
    IF data = <<>> THEN <<>>
    ELSE LET item == Head(data)
             rest == BucketRT(Tail(data), k)
         IN  IF ~Skipped(item) /\ PacificHour(item) = k
             THEN <<[interval |-> IntervalOf(item), price |-> R(ParsePrice(item))]>> \o rest
             ELSE rest

HourlyRTData(data) == [k \in 0 .. NaNKey |-> BucketRT(data, k)]

----------------------------------------------------------------------------
(* transformGridStatusData: the two 24-hour loops *)

\* pacificHour of a user hour: (userHour - hourDiff + 24) % 24, where hourDiff
\* is NaN for a date that does not parse
SourceHour(tzc, userHour) ==
    IF tzc.date = "missing" \/ tzc.zone = "same" THEN userHour
    ELSE IF tzc.date = "unparseable" THEN NaNKey
    ELSE IF tzc.zone = "east3" THEN (userHour - 3 + 24) % 24
    ELSE (userHour - (IF userHour \in 2 .. 4 THEN 4 ELSE 3) + 24) % 24

\* (pacificHour + 1) % 24
NextSourceHour(p) == IF p = NaNKey THEN NaNKey ELSE (p + 1) % 24

\* default fallback price of a missing hour
DefaultPrice == 50

\* FillMissing with the hour of the default price recorded in no list
FillMissingUnrecorded(hasPrev, prevPrice, nextPrices) ==
    IF hasPrev /\ Len(nextPrices) > 0
    THEN [price |-> RDivI(RAdd(prevPrice, Average(nextPrices)), 2),
          dataQuality |-> "interpolated", list |-> "interpolatedHours"]
    ELSE IF hasPrev
    THEN [price |-> prevPrice,
          dataQuality |-> "interpolated", list |-> "interpolatedHours"]
    ELSE IF Len(nextPrices) > 0
    THEN [price |-> Average(nextPrices),
          dataQuality |-> "interpolated", list |-> "interpolatedHours"]
    ELSE [price |-> R(DefaultPrice),
          dataQuality |-> "fallback", list |-> "none"]

\* The else branch of the day-ahead loop: price, quality tag and the metadata
\* list the hour is pushed to, from prevHour (hasPrev, prevPrice) and
\* nextHourData.prices
FillMissing(hasPrev, prevPrice, nextPrices) ==
    IF hasPrev /\ Len(nextPrices) > 0
    THEN [price |-> RDivI(RAdd(prevPrice, Average(nextPrices)), 2),
          dataQuality |-> "interpolated", list |-> "interpolatedHours"]
    ELSE IF hasPrev
    THEN [price |-> prevPrice,
          dataQuality |-> "interpolated", list |-> "interpolatedHours"]
    ELSE IF Len(nextPrices) > 0
    THEN [price |-> Average(nextPrices),
          dataQuality |-> "interpolated", list |-> "interpolatedHours"]
    ELSE [price |-> R(DefaultPrice),
          dataQuality |-> "fallback", list |-> "fallbackHours"]

\* DayAheadStep reading the forward bucket of the target hour instead of the
\* source hour
DayAheadStepTargetNext(hourlyData, tzc, userHour, acc) ==
    LET pacificHour == SourceHour(tzc, userHour)
        bucket == hourlyData[pacificHour]
    IN  IF Len(bucket) > 0
        THEN [acc EXCEPT
                !.dayAheadPrices = Append(@,
                    [hour |-> userHour, price |-> Average(bucket),
                     dataQuality |-> "actual", recordCount |-> Len(bucket),
                     sourceHour |-> pacificHour]),
                !.actualHours = Append(@, userHour)]
        ELSE LET n == Len(acc.dayAheadPrices)
                 hasPrev == n > 0
                 prevPrice == IF hasPrev THEN acc.dayAheadPrices[n].price ELSE R(0)
                 f == FillMissing(hasPrev, prevPrice, hourlyData[NextSourceHour(userHour)])
                 entry == [hour |-> userHour, price |-> f.price,
                           dataQuality |-> f.dataQuality, recordCount |-> 0,
                           sourceHour |-> pacificHour]
             IN  [acc EXCEPT
                    !.dayAheadPrices = Append(@, entry),
                    !.interpolatedHours =
                        IF f.list = "interpolatedHours" THEN Append(@, userHour) ELSE @,
                    !.fallbackHours =
                        IF f.list = "fallbackHours" THEN Append(@, userHour) ELSE @]

\* One iteration of the day-ahead loop on the accumulated arrays
DayAheadStep(hourlyData, tzc, userHour, acc) ==
    LET pacificHour == SourceHour(tzc, userHour)
        bucket == hourlyData[pacificHour]
    IN  IF Len(bucket) > 0
        THEN [acc EXCEPT
                !.dayAheadPrices = Append(@,
                    [hour |-> userHour, price |-> Average(bucket),
                     dataQuality |-> "actual", recordCount |-> Len(bucket),
                     sourceHour |-> pacificHour]),
                !.actualHours = Append(@, userHour)]
        ELSE LET n == Len(acc.dayAheadPrices)
                 hasPrev == n > 0
                 prevPrice == IF hasPrev THEN acc.dayAheadPrices[n].price ELSE R(0)
                 f == FillMissing(hasPrev, prevPrice, hourlyData[NextSourceHour(pacificHour)])
                 entry == [hour |-> userHour, price |-> f.price,
                           dataQuality |-> f.dataQuality, recordCount |-> 0,
                           sourceHour |-> pacificHour]
             IN  [acc EXCEPT
                    !.dayAheadPrices = Append(@, entry),
                    !.interpolatedHours =
                        IF f.list = "interpolatedHours" THEN Append(@, userHour) ELSE @,
                    !.fallbackHours =
                        IF f.list = "fallbackHours" THEN Append(@, userHour) ELSE @]

\* number of iterations of each loop: for (userHour = 0; userHour < 24; ...)
HoursPerDay == 24

RECURSIVE DayAheadLoop(_, _, _, _)
DayAheadLoop(hourlyData, tzc, userHour, acc) ==
    IF userHour >= HoursPerDay THEN acc
    ELSE DayAheadLoop(hourlyData, tzc, userHour + 1,
                      DayAheadStep(hourlyData, tzc, userHour, acc))

EmptyAcc ==
    [dayAheadPrices |-> <<>>, actualHours |-> <<>>,
     interpolatedHours |-> <<>>, fallbackHours |-> <<>>]

\* intervalData[interval]: prices of the hour's entries of one interval
RECURSIVE IntervalPrices(_, _)
IntervalPrices(hourData, interval) ==
    IF hourData = <<>> THEN <<>>
    ELSE LET rest == IntervalPrices(Tail(hourData), interval)
         IN  IF Head(hourData).interval = interval
             THEN <<Head(hourData).price>> \o rest
             ELSE rest

\* dayAheadPrices.find(da => da.hour === userHour)?.price || 50
FindDAPrice(dayAheadPrices, userHour) ==
    LET idx == {i \in 1 .. Len(dayAheadPrices) : dayAheadPrices[i].hour = userHour}
    IN  IF idx = {} THEN R(DefaultPrice)
        ELSE LET i == CHOOSE j \in idx : \A k \in idx : j <= k
             IN  IF dayAheadPrices[i].price = R(0) THEN R(DefaultPrice)
                 ELSE dayAheadPrices[i].price

\* number of 15-minute intervals built per hour
IntervalsPerHour == 4

\* RealTimeEntry filling a missing interval of a partial hour with the first
\* record of the hour instead of the mean of its records
RealTimeEntryFirstRecord(hourlyRTData, dayAheadPrices, tzc, sd, userHour) ==
    LET pacificHour == SourceHour(tzc, userHour)
        hourData == hourlyRTData[pacificHour]
    IN  IF Len(hourData) = 0
        THEN LET daPrice == FindDAPrice(dayAheadPrices, userHour)
             IN  [hour |-> userHour,
                  prices |-> [i \in 1 .. IntervalsPerHour |->
                                [interval |-> i - 1,
                                 price |-> RAdd(daPrice, Noise(sd, userHour, i - 1)),
                                 dataQuality |-> "fallback"]],
                  dataQuality |-> "fallback", recordCount |-> 0,
                  sourceHour |-> pacificHour]
        ELSE LET all == [j \in 1 .. Len(hourData) |-> hourData[j].price]
                 prices == [i \in 1 .. IntervalsPerHour |->
                              LET ip == IntervalPrices(hourData, i - 1)
                              IN  IF Len(ip) > 0
                                  THEN [interval |-> i - 1, price |-> Average(ip),
                                        dataQuality |-> "actual"]
                                  ELSE [interval |-> i - 1, price |-> all[1],
                                        dataQuality |-> "fallback"]]
                 hasActualData == \E i \in 1 .. IntervalsPerHour : prices[i].dataQuality = "actual"
                 allActual == \A i \in 1 .. IntervalsPerHour : prices[i].dataQuality = "actual"
             IN  [hour |-> userHour, prices |-> prices,
                  dataQuality |-> IF hasActualData
                                  THEN (IF allActual THEN "actual" ELSE "partial")
                                  ELSE "fallback",
                  recordCount |-> Len(hourData),
                  sourceHour |-> pacificHour]

\* One iteration of the real-time loop: the entry pushed to realTimePrices
RealTimeEntry(hourlyRTData, dayAheadPrices, tzc, sd, userHour) ==
    LET pacificHour == SourceHour(tzc, userHour)
        hourData == hourlyRTData[pacificHour]
    IN  IF Len(hourData) = 0
        THEN LET daPrice == FindDAPrice(dayAheadPrices, userHour)
             IN  [hour |-> userHour,
                  prices |-> [i \in 1 .. IntervalsPerHour |->
                                [interval |-> i - 1,
                                 price |-> RAdd(daPrice, Noise(sd, userHour, i - 1)),
                                 dataQuality |-> "fallback"]],
                  dataQuality |-> "fallback", recordCount |-> 0,
                  sourceHour |-> pacificHour]
        ELSE LET all == [j \in 1 .. Len(hourData) |-> hourData[j].price]
                 prices == [i \in 1 .. IntervalsPerHour |->
                              LET ip == IntervalPrices(hourData, i - 1)
                              IN  IF Len(ip) > 0
                                  THEN [interval |-> i - 1, price |-> Average(ip),
                                        dataQuality |-> "actual"]
                                  ELSE [interval |-> i - 1, price |-> Average(all),
                                        dataQuality |-> "fallback"]]
                 hasActualData == \E i \in 1 .. IntervalsPerHour : prices[i].dataQuality = "actual"
                 allActual == \A i \in 1 .. IntervalsPerHour : prices[i].dataQuality = "actual"
             IN  [hour |-> userHour, prices |-> prices,
                  dataQuality |-> IF hasActualData
                                  THEN (IF allActual THEN "actual" ELSE "partial")
                                  ELSE "fallback",
                  recordCount |-> Len(hourData),
                  sourceHour |-> pacificHour]

RealTimeLoop(hourlyRTData, dayAheadPrices, tzc, sd) ==
    [i \in 1 .. HoursPerDay |-> RealTimeEntry(hourlyRTData, dayAheadPrices, tzc, sd, i - 1)]

\* transformGridStatusData(dayAheadData, realTimeData, userTimezone, date):
\* the value returned, or the TypeError of the sample-record log
TransformGridStatusData(da, rt, tzc, sd) ==
    IF SampleLogThrows(da) \/ SampleLogThrows(rt)
    THEN [status |-> "threw", error |-> "TypeError"]
    ELSE LET acc == DayAheadLoop(HourlyData(da), tzc, 0, EmptyAcc)
         IN  [status |-> "returned",
              dayAheadPrices |-> acc.dayAheadPrices,
              realTimePrices |-> RealTimeLoop(HourlyRTData(rt), acc.dayAheadPrices, tzc, sd),
              metadata |-> [actualHours |-> acc.actualHours,
                            interpolatedHours |-> acc.interpolatedHours,
                            fallbackHours |-> acc.fallbackHours,
                            totalRecords |-> [dayAhead |-> Len(da), realTime |-> Len(rt)]]]

----------------------------------------------------------------------------
(* GridStatusClient.getMarketPrices and the reconstruction requests *)

Paths == {"direct", "standard", "netlify"}

NoValue == [status |-> "none"]

\* logDataDistribution(data, type): item.interval_start_utc of a null item
LogDistributionThrows(data) == \E i \in 1 .. Len(data) : data[i].obj = "null"

\* validateDate(date) throws: the date is not YYYY-MM-DD, does not parse, or
\* lies more than 7 days ahead
InvalidDate(tzc) == tzc.date # "valid"

\* values the settlement variables keep while a reconstruction request runs
SettleIdle ==
    /\ bids = <<>> /\ daIn = <<>> /\ rtIn = <<>>
    /\ sim = NoValue /\ calls = 0

\* generateKey(endpoint, params): the endpoint and the parameter names in
\* sorted order (a set), the values being those of one request
GenerateKey(endpoint, params) ==
    <<endpoint, {params[i] : i \in 1 .. Len(params)}>>

\* parameter objects, as the sequence of their keys in insertion order
ParamObjects == { <<"date", "iso">>, <<"iso", "date">>, <<"date">> }

CacheKeys == { GenerateKey("market-data", params) : params \in ParamObjects }

\* values the cache variables keep while the cache is not exercised
CacheIdle ==
    /\ cache = [k \in CacheKeys |-> NoValue]
    /\ cacheStats = [hits |-> 0, misses |-> 0, sets |-> 0, deletes |-> 0]
    /\ cacheNow = 0
    /\ written = [k \in CacheKeys |-> NoValue]
    /\ lastOp = NoValue
    /\ cacheOps = 0

\* callers of makeRateLimitedRequest: the dataset discovery and the two
\* fetchDatasetData calls of getMarketPrices
Callers == {"datasets", "dayAhead", "realTime"}

\* values the rate limiting variables keep while no upstream request is made
RateIdle ==
    /\ limiter = "simple" /\ clock = 0 /\ lastRequestTime = 0
    /\ requestQueue = <<>> /\ isProcessingQueue = FALSE
    /\ rpc = [c \in Callers |-> "idle"] /\ wakeAt = [c \in Callers |-> 0]
    /\ starts = <<>>

\* values the trading hook variables keep while a server request runs
HookIdle ==
    /\ hookBids = <<>> /\ renderedBids = <<>> /\ nextId = 1 /\ ops = 0
    /\ request = NoValue

\* values the 429 handling variables keep while no such call is made
RetryIdle ==
    /\ retryScript = <<>>
    /\ retryPc = "idle"
    /\ retryClock = 0
    /\ retryLast = 0
    /\ retryWake = 0
    /\ retryCalls = <<>>
    /\ retryOut = NoValue

\* values the request queue variables keep while no queued request is made
QueueIdle ==
    /\ qVersion = 0
    /\ qLoop = NoValue
    /\ qReq = <<>>
    /\ circuitBreaker = NoValue
    /\ qHist = NoValue

\* values the controller caching variables keep while no controller runs
CtrlIdle ==
    /\ ctrlCache = NoValue
    /\ ctrlNow = 0
    /\ ctrlFetches = 0
    /\ ctrlReq = <<>>
    /\ ctrlLog = NoValue
    /\ ctrlOps = 0

\* values the spike detection variables keep while another request runs
SpikeIdle ==
    /\ priceData = <<>> /\ thresholds = NoValue /\ detection = NoValue
    /\ eventSpikes = <<>> /\ events = NoValue

\* values the reconstruction variables keep while a simulation runs
ReconIdle ==
    /\ path = "direct" /\ fetchedDA = <<>> /\ fetchedRT = <<>>
    /\ dayAheadData = <<>> /\ realTimeData = <<>>
    /\ tz = TzCase("same", "valid") /\ seed = 0 /\ pc = "idle" /\ out = NoValue

----------------------------------------------------------------------------
(* 429 handling: GridStatusClient.makeRateLimitedRequest of the client with *)
(* the simple wrapper (gridstatus.js lines 568-621)                         *)

\* this.minRequestInterval of that client
RetryMinRequestInterval == 2000

\* the default backoff, in ms
DefaultBackoff == 3000

\* parseInt of a text without a leading number
NaNMs == -1

\* marks a retry-after text that is not a whole number of seconds
NotSeconds == -1

\* no retry-after header in the response
NoHeader == [present |-> FALSE, text |-> <<>>, seconds |-> NotSeconds]

Header(text, seconds) == [present |-> TRUE, text |-> text, seconds |-> seconds]

\* retry-after headers: the text the server sent, as a sequence of
\* characters, and the number of seconds it stands for
RetryAfterHeaders ==
    { NoHeader,
      Header(<<>>, NotSeconds),
      Header(<<"0">>, 0),
      Header(<<"2">>, 2),
      Header(<<"1", "2">>, 12),
      Header(<<"1", ".", "5">>, NotSeconds),
      Header(<<"F", "r", "i">>, NotSeconds) }

\* what the upstream can answer to requestFn()
Answer(kind, status, header) == [kind |-> kind, status |-> status, header |-> header]

OkAnswer == Answer("ok", 200, NoHeader)

\* an error without a response (timeout, connection refused)
NetworkError == Answer("network", 0, NoHeader)

FirstAnswers ==
    { OkAnswer, NetworkError }
        \cup { Answer("http", s, NoHeader) : s \in {401, 404, 503} }
        \cup { Answer("http", 429, h) : h \in RetryAfterHeaders }

SecondAnswers ==
    { OkAnswer, NetworkError, Answer("http", 429, NoHeader), Answer("http", 401, NoHeader) }

\* time the upstream takes to answer, and how late a timer may fire, in ms
AnswerTimes == {100, 300}
TimerLateness == {0, 50}

\* the clock value at which the client was last used
RetryEpoch == 100000

DigitChars == <<"0", "1", "2", "3", "4", "5", "6", "7", "8", "9">>

IsDigit(c) == \E d \in 1 .. 10 : DigitChars[d] = c

DigitValue(c) == (CHOOSE d \in 1 .. 10 : DigitChars[d] = c) - 1

\* the value of the longest prefix of digits of s, continuing from acc
RECURSIVE LeadingNumber(_, _)
LeadingNumber(s, acc) ==
    IF Len(s) = 0 \/ ~IsDigit(Head(s))
    THEN acc
    ELSE LeadingNumber(Tail(s), 10 * acc + DigitValue(Head(s)))

\* parseInt(text): the leading whole number of the text, NaN without one
ParseInt(text) ==
    IF Len(text) = 0 \/ ~IsDigit(Head(text)) THEN NaNMs ELSE LeadingNumber(text, 0)

\* `retryAfter ?`: undefined and the empty string are falsy
Truthy(header) == header.present /\ Len(header.text) > 0

\* const backoffTime = retryAfter ? parseInt(retryAfter) * 1000 : 3000
BackoffTime(header) ==
    IF Truthy(header)
    THEN IF ParseInt(header.text) = NaNMs THEN NaNMs ELSE ParseInt(header.text) * 1000
    ELSE DefaultBackoff

\* setTimeout(fn, ms): a delay that is NaN or below 1 ms becomes 1 ms
TimerDelay(ms) == IF ms = NaNMs \/ ms < 1 THEN 1 ELSE ms

\* Math.max(0, this.minRequestInterval - (now - this.lastRequestTime))
RetryWaitTime == 
    IF RetryMinRequestInterval - (retryClock - retryLast) > 0
    THEN RetryMinRequestInterval - (retryClock - retryLast)
    ELSE 0

\* error.response?.status === 429
ShouldRetryServerErrors(answer) == answer.kind = "http" /\ answer.status \in {429, 503}
ShouldRetry(answer) == answer.kind = "http" /\ answer.status = 429

\* requestFn() is invoked at the clock value t
Invoked(t) == Append(retryCalls, [at |-> t, settled |-> 0])

\* the pending requestFn() settles at the clock value t
SettledAt(t) ==
    [retryCalls EXCEPT ![Len(retryCalls)].settled = t]

RetryInit ==
    /\ retryScript \in [first : FirstAnswers, second : SecondAnswers]
    /\ retryPc = "idle"
    /\ retryLast \in {0, RetryEpoch}
    /\ retryClock \in {RetryEpoch, RetryEpoch + 500, RetryEpoch + RetryMinRequestInterval}
    /\ retryWake = 0
    /\ retryCalls = <<>>
    /\ retryOut = NoValue
    /\ ReconIdle
    /\ SettleIdle
    /\ SpikeIdle
    /\ HookIdle
    /\ RateIdle
    /\ CacheIdle
    /\ QueueIdle
    /\ CtrlIdle

\* lines 572-580 when no wait is needed: requestFn() is invoked at once
RetryCallNow ==
    /\ retryPc = "idle"
    /\ RetryWaitTime = 0
    /\ retryLast' = retryClock
    /\ retryCalls' = Invoked(retryClock)
    /\ retryPc' = "first"
    /\ UNCHANGED <<retryScript, retryClock, retryWake, retryOut>>
    /\ UNCHANGED <<reconVars, settleVars, spikeVars, hookVars, rateVars, cacheVars,
                   queueVars, ctrlVars>>

\* lines 572-577: the call sleeps for waitTime
RetryCallWait ==
    /\ retryPc = "idle"
    /\ RetryWaitTime > 0
    /\ retryWake' = retryClock + TimerDelay(RetryWaitTime)
    /\ retryPc' = "sleeping"
    /\ UNCHANGED <<retryScript, retryClock, retryLast, retryCalls, retryOut>>
    /\ UNCHANGED <<reconVars, settleVars, spikeVars, hookVars, rateVars, cacheVars,
                   queueVars, ctrlVars>>

\* lines 580-583: the sleep ends, requestFn() is invoked
RetrySlept ==
    /\ retryPc = "sleeping"
    /\ \E late \in TimerLateness :
          /\ retryClock' = retryWake + late
          /\ retryLast' = retryWake + late
          /\ retryCalls' = Invoked(retryWake + late)
    /\ retryPc' = "first"
    /\ UNCHANGED <<retryScript, retryWake, retryOut>>
    /\ UNCHANGED <<reconVars, settleVars, spikeVars, hookVars, rateVars, cacheVars,
                   queueVars, ctrlVars>>

\* lines 582-618: the first requestFn() settles
RetryFirstSettles ==
    /\ retryPc = "first"
    /\ \E d \in AnswerTimes :
          /\ retryClock' = retryClock + d
          /\ retryCalls' = SettledAt(retryClock + d)
          /\ IF retryScript.first.kind = "ok"
             THEN /\ retryOut' = [status |-> "returned", value |-> "first"]
                  /\ retryPc' = "done"
                  /\ UNCHANGED retryWake
             ELSE IF ShouldRetry(retryScript.first)
             THEN /\ retryWake' = retryClock + d
                                    + TimerDelay(BackoffTime(retryScript.first.header))
                  /\ retryPc' = "backoff"
                  /\ UNCHANGED retryOut
             ELSE /\ retryOut' =
                        IF retryScript.first.status = 401
                        THEN [status |-> "threw", error |-> "ApiError401"]
                        ELSE IF retryScript.first.status = 404
                        THEN [status |-> "threw", error |-> "ApiError404"]
                        ELSE [status |-> "threw", error |-> retryScript.first]
                  /\ retryPc' = "done"
                  /\ UNCHANGED retryWake
    /\ UNCHANGED <<retryScript, retryLast>>
    /\ UNCHANGED <<reconVars, settleVars, spikeVars, hookVars, rateVars, cacheVars,
                   queueVars, ctrlVars>>

\* lines 594-601: the backoff ends, requestFn() is invoked again
RetryBackedOff ==
    /\ retryPc = "backoff"
    /\ \E late \in TimerLateness :
          /\ retryClock' = retryWake + late
          /\ retryLast' = retryWake + late
          /\ retryCalls' = Invoked(retryWake + late)
    /\ retryPc' = "second"
    /\ UNCHANGED <<retryScript, retryWake, retryOut>>
    /\ UNCHANGED <<reconVars, settleVars, spikeVars, hookVars, rateVars, cacheVars,
                   queueVars, ctrlVars>>

\* lines 600-607: the second requestFn() settles
RetrySecondSettles ==
    /\ retryPc = "second"
    /\ \E d \in AnswerTimes :
          /\ retryClock' = retryClock + d
          /\ retryCalls' = SettledAt(retryClock + d)
    /\ retryOut' =
          IF retryScript.second.kind = "ok"
          THEN [status |-> "returned", value |-> "second"]
          ELSE [status |-> "threw", error |-> "ApiError429"]
    /\ retryPc' = "done"
    /\ UNCHANGED <<retryScript, retryLast, retryWake>>
    /\ UNCHANGED <<reconVars, settleVars, spikeVars, hookVars, rateVars, cacheVars,
                   queueVars, ctrlVars>>

RetryNext ==
    \/ RetryCallNow
    \/ RetryCallWait
    \/ RetrySlept
    \/ RetryFirstSettles
    \/ RetryBackedOff
    \/ RetrySecondSettles

SpecRetry == RetryInit /\ [][RetryNext]_vars

\* the backoff the response asks for: the seconds of its retry-after header,
\* 3 s without a header, nothing said for a header that is not in seconds
AskedBackoff(header) ==
    IF ~Truthy(header) THEN DefaultBackoff
    ELSE IF header.seconds # NotSeconds THEN header.seconds * 1000
    ELSE 0

\* C26: requestFn is never invoked more than twice; a finished call whose
\* first requestFn() failed with HTTP 429 invoked requestFn exactly once
\* more, no earlier than the backoff (the seconds of the retry-after header,
\* 3 s without one) after the failure, and returned the result of the retry
\* or, when the retry failed, threw ApiError 429; a finished call whose first
\* requestFn() succeeded or failed otherwise invoked requestFn exactly once.
C26_RetryOnceAfter429 ==
    /\ Len(retryCalls) <= 2
    /\ retryPc = "done" =>
          IF retryScript.first.kind = "http" /\ retryScript.first.status = 429
          THEN /\ Len(retryCalls) = 2
               /\ retryCalls[2].at - retryCalls[1].settled
                     >= AskedBackoff(retryScript.first.header)
               /\ retryOut =
                     IF retryScript.second.kind = "ok"
                     THEN [status |-> "returned", value |-> "second"]
                     ELSE [status |-> "threw", error |-> "ApiError429"]
          ELSE /\ Len(retryCalls) = 1
               /\ retryScript.first.kind = "ok"
                     => retryOut = [status |-> "returned", value |-> "first"]
               /\ retryScript.first.kind # "ok" => retryOut.status = "threw"

\* a call answered 429 with retry-after 2 whose retry, started exactly 2 s
\* after the failure, succeeded
C26_Witness ==
    /\ retryPc = "done"
    /\ retryScript.first = Answer("http", 429, Header(<<"2">>, 2))
    /\ Len(retryCalls) = 2
    /\ retryCalls[2].at - retryCalls[1].settled = 2000
    /\ retryOut = [status |-> "returned", value |-> "second"]

\* a call answered 429 without a header whose retry failed with 429 again
C26_WitnessRetryFailed ==
    /\ retryPc = "done"
    /\ retryScript.first = Answer("http", 429, NoHeader)
    /\ retryScript.second = Answer("http", 429, NoHeader)
    /\ retryCalls[2].at - retryCalls[1].settled = DefaultBackoff
    /\ retryOut = [status |-> "threw", error |-> "ApiError429"]

\* a call answered 503 that was not retried
C26_WitnessNoRetry ==
    /\ retryPc = "done"
    /\ retryScript.first = Answer("http", 503, NoHeader)
    /\ Len(retryCalls) = 1
    /\ retryOut = [status |-> "threw", error |-> Answer("http", 503, NoHeader)]

----------------------------------------------------------------------------
(* GridStatusClient.makeRateLimitedRequest of the client with the simple    *)
(* wrapper (gridstatus.js lines 568-621), called by concurrent callers      *)

\* this.minRequestInterval
MinRequestInterval == 2000

\* granularity of the clock
TickMs == 100

\* Date.now() when the client is constructed, at or after the epoch of
\* lastRequestTime = 0 by more than the interval
ConstructedAt == 5000

\* Math.max(0, this.minRequestInterval - (now - this.lastRequestTime))
WaitTime == 
    LET w == MinRequestInterval - (clock - lastRequestTime)
    IN  IF w > 0 THEN w ELSE 0

\* what the upstream answers to a requestFn() of a concurrent caller: a
\* result, an error without a response, or HTTP 429 with a retry-after
\* header of 1 second
SimpleAnswers ==
    { OkAnswer, NetworkError, Answer("http", 429, Header(<<"1">>, 1)) }

SimpleInit ==
    /\ limiter = "simple"
    /\ clock = ConstructedAt
    /\ lastRequestTime = 0
    /\ requestQueue = <<>>
    /\ isProcessingQueue = FALSE
    /\ rpc = [c \in Callers |-> "idle"]
    /\ wakeAt = [c \in Callers |-> 0]
    /\ starts = <<>>
    /\ ReconIdle
    /\ SettleIdle
    /\ SpikeIdle
    /\ HookIdle
    /\ CacheIdle
    /\ RetryIdle
    /\ QueueIdle
    /\ CtrlIdle

\* time passes
Tick ==
    /\ limiter = "simple"
    /\ clock < ConstructedAt + MaxTicks * TickMs
    /\ clock' = clock + TickMs
    /\ UNCHANGED <<limiter, lastRequestTime, requestQueue, isProcessingQueue, rpc, wakeAt, starts,
                   reconVars, settleVars, spikeVars, hookVars, cacheVars,
                 retryVars, queueVars, ctrlVars>>

\* makeRateLimitedRequest(requestFn) of lines 568-621 up to its first await
\* that takes time: either the sleep, or the request itself
SimpleCall(c) ==
    /\ limiter = "simple"
    /\ rpc[c] = "idle"
    /\ IF WaitTime > 0
       THEN /\ rpc' = [rpc EXCEPT ![c] = "sleeping"]
            /\ wakeAt' = [wakeAt EXCEPT ![c] = clock + WaitTime]
            /\ UNCHANGED <<lastRequestTime, starts>>
       ELSE /\ rpc' = [rpc EXCEPT ![c] = "inflight"]
            /\ lastRequestTime' = clock
            /\ starts' = Append(starts, clock)
            /\ UNCHANGED wakeAt
    /\ UNCHANGED <<limiter, clock, requestQueue, isProcessingQueue,
                   reconVars, settleVars, spikeVars, hookVars, cacheVars,
                 retryVars, queueVars, ctrlVars>>

\* the setTimeout of the wrapper expires: lastRequestTime = Date.now(), then
\* requestFn()
SimpleWake(c) ==
    /\ limiter = "simple"
    /\ rpc[c] = "sleeping"
    /\ clock >= wakeAt[c]
    /\ rpc' = [rpc EXCEPT ![c] = "inflight"]
    /\ lastRequestTime' = clock
    /\ starts' = Append(starts, clock)
    /\ UNCHANGED <<limiter, clock, requestQueue, isProcessingQueue, wakeAt,
                   reconVars, settleVars, spikeVars, hookVars, cacheVars,
                 retryVars, queueVars, ctrlVars>>

\* requestFn() settles (lines 582-618): the result is returned or the error
\* thrown, but after HTTP 429 the call sleeps for backoffTime
SimpleSettle(c) ==
    /\ limiter = "simple"
    /\ rpc[c] = "inflight"
    /\ \E answer \in SimpleAnswers :
          IF ShouldRetry(answer)
          THEN /\ rpc' = [rpc EXCEPT ![c] = "backoff"]
               /\ wakeAt' = [wakeAt EXCEPT ![c] =
                                clock + TimerDelay(BackoffTime(answer.header))]
          ELSE /\ rpc' = [rpc EXCEPT ![c] = "done"]
               /\ UNCHANGED wakeAt
    /\ UNCHANGED <<limiter, clock, lastRequestTime, requestQueue, isProcessingQueue, starts,
                   reconVars, settleVars, spikeVars, hookVars, cacheVars,
                 retryVars, queueVars, ctrlVars>>

\* the backoff ends (lines 594-601): lastRequestTime = Date.now(), then
\* requestFn() again
SimpleBackedOff(c) ==
    /\ limiter = "simple"
    /\ rpc[c] = "backoff"
    /\ clock >= wakeAt[c]
    /\ rpc' = [rpc EXCEPT ![c] = "retrying"]
    /\ lastRequestTime' = clock
    /\ starts' = Append(starts, clock)
    /\ UNCHANGED <<limiter, clock, requestQueue, isProcessingQueue, wakeAt,
                   reconVars, settleVars, spikeVars, hookVars, cacheVars,
                 retryVars, queueVars, ctrlVars>>

\* the second requestFn() settles (lines 600-607): its result is returned or
\* ApiError 429 thrown
SimpleRetrySettles(c) ==
    /\ limiter = "simple"
    /\ rpc[c] = "retrying"
    /\ rpc' = [rpc EXCEPT ![c] = "done"]
    /\ UNCHANGED <<limiter, clock, lastRequestTime, requestQueue, isProcessingQueue, wakeAt, starts,
                   reconVars, settleVars, spikeVars, hookVars, cacheVars,
                 retryVars, queueVars, ctrlVars>>

SimpleNext ==
    \/ Tick
    \/ \E c \in Callers : SimpleCall(c)
    \/ \E c \in Callers : SimpleWake(c)
    \/ \E c \in Callers : SimpleSettle(c)
    \/ \E c \in Callers : SimpleBackedOff(c)
    \/ \E c \in Callers : SimpleRetrySettles(c)

----------------------------------------------------------------------------
(* Request queue with timeouts: GridStatusClient.makeRateLimitedRequest,    *)
(* processQueue and waitForRateLimit of the client of gridstatus.js lines   *)
(* 10-195 (version 1) and of the client with the circuit breaker, lines     *)
(* 888-1133 (version 3)                                                     *)

\* number of makeRateLimitedRequest calls made on one client
MaxRequests == 2

\* number of idle periods of the client
MaxGaps == 1

QIds == 1 .. MaxRequests

\* the requests of the client
ReqIds == DOMAIN qReq

\* this.minRequestInterval
QMinRequestInterval(v) == IF v = 1 THEN 2500 ELSE 2000

\* this.requestTimeout
RequestTimeout(v) == IF v = 1 THEN 8000 ELSE 4000

\* the internal timeout of processQueue: this.requestTimeout - 500 / - 200
InternalTimeout(v) == IF v = 1 THEN RequestTimeout(v) - 500 ELSE RequestTimeout(v) - 200

\* timeout of the axios client that every request function calls
AxiosTimeout(v) == IF v = 1 THEN 8000 ELSE 3500

\* circuitBreaker.maxFailures and circuitBreaker.timeoutPeriod
MaxFailures == 2
TimeoutPeriod == 60000

\* time the upstream takes when it answers, in ms
QuickAnswer == 300

\* lengths of the idle periods of the client, in ms
IdleGaps == {3000, 61000}

\* Date.now() when the client is constructed
QConstructedAt == 10000

\* what the axios call of a request function does: it answers or fails
\* quickly, or it fails when the axios timeout expires
Upstreams(v) ==
    { [time |-> QuickAnswer, ok |-> TRUE],
      [time |-> QuickAnswer, ok |-> FALSE],
      [time |-> AxiosTimeout(v), ok |-> FALSE] }

\* the sleep of waitForRateLimit, 0 when it does not sleep
QSleep(v, now, last) ==
    LET waitTime == IF QMinRequestInterval(v) - (now - last) > 0
                    THEN QMinRequestInterval(v) - (now - last) ELSE 0
        maxWaitTime == IF v = 1
                       THEN (IF waitTime < RequestTimeout(v) \div 2
                             THEN waitTime ELSE RequestTimeout(v) \div 2)
                       ELSE (IF waitTime < 800 THEN waitTime ELSE 800)
    IN  IF waitTime > 0 /\ maxWaitTime > (IF v = 1 THEN 0 ELSE 100)
        THEN maxWaitTime
        ELSE 0

\* a request before makeRateLimitedRequest is called with it
NewRequest ==
    [state |-> "new", by |-> "none", outer |-> "none", outerAt |-> 0,
     fnCalls |-> 0, up |-> "none", upEnd |-> 0, upOk |-> FALSE,
     failures |-> 0, settleCalls |-> 0]

ClosedBreaker == [failureCount |-> 0, lastFailureTime |-> 0, isOpen |-> FALSE]

LoopOff == [phase |-> "off", item |-> 0, wake |-> 0, deadline |-> 0]

\* recordSuccess()
RecordSuccess(b) == IF b.failureCount > 0 THEN [b EXCEPT !.failureCount = 0] ELSE b

\* recordFailure()
RecordFailure(b, now) ==
    [failureCount |-> b.failureCount + 1,
     lastFailureTime |-> now,
     isOpen |-> b.isOpen \/ b.failureCount + 1 >= MaxFailures]

\* the circuit breaker after isCircuitOpen(), which closes it once
\* timeoutPeriod has passed since the last failure
AfterCircuitCheck(b, now) ==
    IF b.isOpen /\ now - b.lastFailureTime > TimeoutPeriod
    THEN [b EXCEPT !.isOpen = FALSE, !.failureCount = 0]
    ELSE b

\* the promise of a request is settled: only the first resolve / reject acts
Settle(r, state, by) ==
    IF r.state = "pending"
    THEN [r EXCEPT !.state = state, !.by = by, !.settleCalls = @ + 1]
    ELSE [r EXCEPT !.settleCalls = @ + 1]

\* clearTimeout(timeoutId)
ClearOuter(r) == IF r.outer = "armed" THEN [r EXCEPT !.outer = "cleared"] ELSE r

\* wrappedResolve(result) of request id
WrappedResolve(reqs, id) ==
    [reqs EXCEPT ![id] = Settle(ClearOuter(@), "resolved", "result")]

\* wrappedReject(error) of request id; version 3 counts a failure
WrappedReject(reqs, id, by) ==
    [reqs EXCEPT ![id] =
        Settle([ClearOuter(@) EXCEPT !.failures = IF qVersion = 3 THEN @ + 1 ELSE @],
               "rejected", by)]

\* requestFn() of request id is invoked: its axios call goes out
StartFn(reqs, id, up) ==
    [reqs EXCEPT ![id].fnCalls = @ + 1,
                 ![id].up = "inflight",
                 ![id].upEnd = clock + up.time,
                 ![id].upOk = up.ok]

\* lines 153-164 / 1091-1102: the request function of the item is invoked,
\* the internal timeout is armed and lastRequestTime is set
Begin(reqs, id) ==
    \E up \in Upstreams(qVersion) :
        /\ qReq' = StartFn(reqs, id, up)
        /\ qLoop' = [phase |-> "racing", item |-> id, wake |-> 0,
                     deadline |-> clock + InternalTimeout(qVersion)]
        /\ lastRequestTime' = clock
        /\ starts' = Append(starts, clock)
        /\ qHist' = [qHist EXCEPT
                        !.order = Append(@, id),
                        !.overlap = @ \/ \E j \in ReqIds : reqs[j].up = "inflight"]

\* processQueue without the final `this.isProcessingQueue = false`
RunLoopKeepsFlag(q, reqs) ==
    IF q = <<>>
    THEN /\ isProcessingQueue' = TRUE
         /\ requestQueue' = q
         /\ qLoop' = LoopOff
         /\ qReq' = reqs
         /\ UNCHANGED <<lastRequestTime, starts, qHist>>
    ELSE /\ isProcessingQueue' = TRUE
         /\ requestQueue' = Tail(q)
         /\ IF QSleep(qVersion, clock, lastRequestTime) > 0
            THEN /\ qLoop' = [phase |-> "waiting", item |-> Head(q),
                              wake |-> clock + QSleep(qVersion, clock, lastRequestTime),
                              deadline |-> 0]
                 /\ qReq' = reqs
                 /\ UNCHANGED <<lastRequestTime, starts, qHist>>
            ELSE Begin(reqs, Head(q))

\* the while loop of processQueue from its test: it ends and clears
\* isProcessingQueue, or it takes the next item and runs until it sleeps in
\* waitForRateLimit or waits for the race
RunLoop(q, reqs) ==
    IF q = <<>>
    THEN /\ isProcessingQueue' = FALSE
         /\ requestQueue' = q
         /\ qLoop' = LoopOff
         /\ qReq' = reqs
         /\ UNCHANGED <<lastRequestTime, starts, qHist>>
    ELSE /\ isProcessingQueue' = TRUE
         /\ requestQueue' = Tail(q)
         /\ IF QSleep(qVersion, clock, lastRequestTime) > 0
            THEN /\ qLoop' = [phase |-> "waiting", item |-> Head(q),
                              wake |-> clock + QSleep(qVersion, clock, lastRequestTime),
                              deadline |-> 0]
                 /\ qReq' = reqs
                 /\ UNCHANGED <<lastRequestTime, starts, qHist>>
            ELSE Begin(reqs, Head(q))

\* the promise of request i is settled
Settled(i) == qReq[i].state \in {"resolved", "rejected"}

\* the requests that getMarketPrices makes for its callers
ReqOf(c) ==
    CASE c = "datasets" -> 1
      [] c = "dayAhead" -> 2
      [] c = "realTime" -> 3

\* the promise that caller c of getMarketPrices awaits is settled: no
\* dataset was found for it, or its request is settled
Ready(c) == rpc[c] = "nodataset" \/ (rpc[c] = "waiting" /\ Settled(ReqOf(c)))

\* a continuation of getMarketPrices or of its caller is in the microtask
\* queue: it runs before the next timer or axios callback
JobsPending ==
    \/ pc = "datasets" /\ (rpc["datasets"] = "cached" \/ Ready("datasets"))
    \/ pc = "fetching" /\ Ready("dayAhead") /\ Ready("realTime")
    \/ pc = "fetchingDA" /\ Ready("dayAhead")
    \/ pc = "fetchingRT" /\ Ready("realTime")
    \/ pc = "fetched"

\* a client of version v that was constructed or last used at
\* QConstructedAt, has no request in progress and is handed the requests ids
IdleClient(v, ids) ==
    /\ limiter = "queue"
    /\ qVersion = v
    /\ lastRequestTime = QConstructedAt
    /\ requestQueue = <<>>
    /\ isProcessingQueue = FALSE
    /\ wakeAt = [c \in Callers |-> 0]
    /\ starts = <<>>
    /\ qLoop = LoopOff
    /\ qReq = [i \in ids |-> NewRequest]
    /\ qHist = [order |-> <<>>, overlap |-> FALSE, gaps |-> 0]

QueueInit ==
    /\ \E v \in {1, 3} : IdleClient(v, QIds)
    /\ circuitBreaker = ClosedBreaker
    /\ clock = QConstructedAt
    /\ rpc = [c \in Callers |-> "idle"]
    /\ ReconIdle
    /\ SettleIdle
    /\ SpikeIdle
    /\ HookIdle
    /\ CacheIdle
    /\ RetryIdle
    /\ CtrlIdle

\* the request that the next makeRateLimitedRequest call is made with
NextNew == CHOOSE i \in ReqIds : qReq[i].state = "new" /\ \A j \in 1 .. i - 1 : qReq[j].state # "new"

\* the makeRateLimitedRequest(requestFn) calls that one job makes for the
\* requests ids, in their order, with the synchronous part of the
\* processQueue() calls they make: an open circuit rejects each call at
\* once, otherwise each arms its timeout and pushes its item, and the first
\* processQueue() that finds no loop running starts one
MakeRequests(ids) ==
    LET b == IF qVersion = 3 THEN AfterCircuitCheck(circuitBreaker, clock)
             ELSE circuitBreaker
        called == { ids[k] : k \in 1 .. Len(ids) }
    IN  IF ids = <<>>
        THEN UNCHANGED <<requestQueue, isProcessingQueue, lastRequestTime, starts,
                         qLoop, qReq, circuitBreaker, qHist>>
        ELSE IF qVersion = 3 /\ b.isOpen
        THEN /\ qReq' = [i \in ReqIds |->
                            IF i \in called
                            THEN [qReq[i] EXCEPT !.state = "rejected",
                                                 !.by = "circuitOpen",
                                                 !.settleCalls = 1]
                            ELSE qReq[i]]
             /\ circuitBreaker' = b
             /\ UNCHANGED <<requestQueue, isProcessingQueue, lastRequestTime, starts,
                            qLoop, qHist>>
        ELSE LET reqs == [i \in ReqIds |->
                            IF i \in called
                            THEN [qReq[i] EXCEPT
                                     !.state = "pending",
                                     !.outer = "armed",
                                     !.outerAt = clock + RequestTimeout(qVersion)]
                            ELSE qReq[i]]
             IN  /\ circuitBreaker' = b
                 /\ IF isProcessingQueue
                    THEN /\ requestQueue' = requestQueue \o ids
                         /\ qReq' = reqs
                         /\ UNCHANGED <<isProcessingQueue, lastRequestTime, starts,
                                        qLoop, qHist>>
                    ELSE RunLoop(requestQueue \o ids, reqs)

\* makeRateLimitedRequest(requestFn), with the synchronous part of the
\* processQueue() call it makes
MakeRateLimitedRequest ==
    /\ limiter = "queue"
    /\ \E i \in ReqIds : qReq[i].state = "new"
    /\ MakeRequests(<<NextNew>>)
    /\ UNCHANGED <<limiter, clock, rpc, wakeAt, qVersion>>
    /\ UNCHANGED <<reconVars, settleVars, spikeVars, hookVars, cacheVars,
                   retryVars, ctrlVars>>

\* the sleep of waitForRateLimit ends: processQueue invokes the request
\* function of its item
LoopWake ==
    /\ limiter = "queue"
    /\ ~JobsPending
    /\ qLoop.phase = "waiting"
    /\ qLoop.wake <= clock
    /\ Begin(qReq, qLoop.item)
    /\ UNCHANGED <<requestQueue, isProcessingQueue, circuitBreaker>>
    /\ UNCHANGED <<limiter, clock, rpc, wakeAt, qVersion>>
    /\ UNCHANGED <<reconVars, settleVars, spikeVars, hookVars, cacheVars,
                   retryVars, ctrlVars>>

\* the axios call of request id ends; when processQueue still waits for it,
\* the race is won by the request: resolve(result) or reject(error) is called
\* and the loop goes on
UpstreamEnds(id) ==
    /\ limiter = "queue"
    /\ ~JobsPending
    /\ qReq[id].up = "inflight"
    /\ qReq[id].upEnd <= clock
    /\ LET ended == [qReq EXCEPT ![id].up = "done"]
       IN  IF qLoop.phase = "racing" /\ qLoop.item = id
           THEN IF qReq[id].upOk
                THEN /\ circuitBreaker' = IF qVersion = 3 THEN RecordSuccess(circuitBreaker)
                                          ELSE circuitBreaker
                     /\ RunLoop(requestQueue, WrappedResolve(ended, id))
                ELSE /\ circuitBreaker' = IF qVersion = 3
                                          THEN RecordFailure(circuitBreaker, clock)
                                          ELSE circuitBreaker
                     /\ RunLoop(requestQueue, WrappedReject(ended, id, "error"))
           ELSE /\ qReq' = ended
                /\ UNCHANGED <<requestQueue, isProcessingQueue, lastRequestTime, starts,
                               qLoop, qHist, circuitBreaker>>
    /\ UNCHANGED <<limiter, clock, rpc, wakeAt, qVersion>>
    /\ UNCHANGED <<reconVars, settleVars, spikeVars, hookVars, cacheVars,
                   retryVars, ctrlVars>>

\* the internal timeout of processQueue wins the race: reject(error) is
\* called and the loop goes on; the axios call is left running
InternalTimeoutFires ==
    /\ limiter = "queue"
    /\ ~JobsPending
    /\ qLoop.phase = "racing"
    /\ qLoop.deadline <= clock
    /\ circuitBreaker' = IF qVersion = 3 THEN RecordFailure(circuitBreaker, clock)
                         ELSE circuitBreaker
    /\ RunLoop(requestQueue, WrappedReject(qReq, qLoop.item, "internalTimeout"))
    /\ UNCHANGED <<limiter, clock, rpc, wakeAt, qVersion>>
    /\ UNCHANGED <<reconVars, settleVars, spikeVars, hookVars, cacheVars,
                   retryVars, ctrlVars>>

\* the timeout armed by makeRateLimitedRequest for request id fires
OuterTimeoutFires(id) ==
    /\ limiter = "queue"
    /\ ~JobsPending
    /\ qReq[id].outer = "armed"
    /\ qReq[id].outerAt <= clock
    /\ circuitBreaker' = IF qVersion = 3 THEN RecordFailure(circuitBreaker, clock)
                         ELSE circuitBreaker
    /\ qReq' = [qReq EXCEPT ![id] =
                  Settle([@ EXCEPT !.outer = "fired",
                                   !.failures = IF qVersion = 3 THEN @ + 1 ELSE @],
                         "rejected", "outerTimeout")]
    /\ UNCHANGED <<requestQueue, isProcessingQueue, lastRequestTime, starts, qLoop, qHist>>
    /\ UNCHANGED <<limiter, clock, rpc, wakeAt, qVersion>>
    /\ UNCHANGED <<reconVars, settleVars, spikeVars, hookVars, cacheVars,
                   retryVars, ctrlVars>>

\* expiry times of the timers and axios calls that are pending: the sleep
\* of waitForRateLimit, the internal and the outer timeouts, the axios
\* calls, and the 2 s timer that the Netlify branch of getMarketPrices
\* races the real-time fetch against
Deadlines ==
    (IF qLoop.phase = "waiting" THEN {qLoop.wake} ELSE {})
        \cup (IF qLoop.phase = "racing" THEN {qLoop.deadline} ELSE {})
        \cup { qReq[i].outerAt : i \in { j \in ReqIds : qReq[j].outer = "armed" } }
        \cup { qReq[i].upEnd : i \in { j \in ReqIds : qReq[j].up = "inflight" } }
        \cup (IF pc = "fetchingRT" THEN {wakeAt["realTime"]} ELSE {})

\* time passes until the next timer or axios call is due
Advance ==
    /\ limiter = "queue"
    /\ ~JobsPending
    /\ Deadlines # {}
    /\ \A d \in Deadlines : d > clock
    /\ clock' = CHOOSE d \in Deadlines : \A e \in Deadlines : d <= e
    /\ UNCHANGED <<limiter, lastRequestTime, requestQueue, isProcessingQueue, rpc, wakeAt,
                   starts, queueVars>>
    /\ UNCHANGED <<reconVars, settleVars, spikeVars, hookVars, cacheVars,
                   retryVars, ctrlVars>>

\* nothing is pending: time passes until the next call is made
IdlePeriod ==
    /\ limiter = "queue"
    /\ Deadlines = {}
    /\ qHist.gaps < MaxGaps
    /\ \E i \in ReqIds : qReq[i].state = "new"
    /\ \E g \in IdleGaps : clock' = clock + g
    /\ qHist' = [qHist EXCEPT !.gaps = @ + 1]
    /\ UNCHANGED <<limiter, lastRequestTime, requestQueue, isProcessingQueue, rpc, wakeAt,
                   starts, qVersion, qLoop, qReq, circuitBreaker>>
    /\ UNCHANGED <<reconVars, settleVars, spikeVars, hookVars, cacheVars,
                   retryVars, ctrlVars>>

\* the timers and axios callbacks of the client
QueueTimers ==
    \/ LoopWake
    \/ \E id \in ReqIds : UpstreamEnds(id)
    \/ InternalTimeoutFires
    \/ \E id \in ReqIds : OuterTimeoutFires(id)
    \/ Advance

QueueNext ==
    \/ MakeRateLimitedRequest
    \/ QueueTimers
    \/ IdlePeriod

SpecQueue == QueueInit /\ [][QueueNext]_vars

\* timers fire and axios calls end: every step but a new call and an idle
\* period is taken once it stays possible
SpecQueueFair ==
    /\ SpecQueue
    /\ WF_vars(LoopWake)
    /\ WF_vars(\E id \in QIds : UpstreamEnds(id))
    /\ WF_vars(InternalTimeoutFires)
    /\ WF_vars(\E id \in QIds : OuterTimeoutFires(id))
    /\ WF_vars(Advance)

\* the limiter of either kind, called by concurrent callers
RateInit == SimpleInit \/ QueueInit

RateNext == SimpleNext \/ QueueNext

SpecRate == RateInit /\ [][RateNext]_vars

\* C16: any two upstream requests of one client start at least
\* minRequestInterval (2 seconds) apart.
C16_RequestsSpaced ==
    \A i, j \in 1 .. Len(starts) :
        i < j => starts[j] - starts[i] >= 2000

\* requests that recorded at least one failure in the circuit breaker
FailedRequests == { i \in QIds : qReq[i].failures > 0 }

\* C27: in the client with the circuit breaker (version 3) a request records
\* at most one failure, and the breaker is open only when at least
\* maxFailures distinct requests recorded a failure.
C27_OneFailurePerRequest ==
    qVersion = 3 =>
        /\ \A i \in QIds : qReq[i].failures <= 1
        /\ circuitBreaker.isOpen => Cardinality(FailedRequests) >= MaxFailures

\* C28: request functions are started in the order of the
\* makeRateLimitedRequest calls, and none is started while the axios call of
\* an earlier item is still in flight.
C28_OneAtATime ==
    /\ \A k \in 1 .. Len(qHist.order) - 1 : qHist.order[k] < qHist.order[k + 1]
    /\ ~qHist.overlap

\* C29: (a) a request function is invoked at most once; (b) a settled
\* promise keeps its outcome; in the client without circuit breaker it is
\* settled by the result or error of the request or by one of the timeouts;
\* (c) isProcessingQueue is false whenever no processQueue loop runs;
\* (d) every pending request is eventually settled; (e) every pending
\* request eventually has its request function invoked; (f) whenever
\* isProcessingQueue is true it eventually is false again.
C29_EverySettledOnce ==
    /\ [](\A i \in QIds : qReq[i].fnCalls <= 1)
    /\ [][\A i \in QIds : Settled(i) =>
              /\ qReq'[i].state = qReq[i].state
              /\ qReq'[i].by = qReq[i].by]_vars
    /\ [](\A i \in QIds : Settled(i) /\ qVersion = 1 =>
              qReq[i].by \in {"result", "error", "internalTimeout", "outerTimeout"})
    /\ [](qLoop.phase = "off" => ~isProcessingQueue /\ requestQueue = <<>>)
    /\ \A i \in QIds : (qReq[i].state = "pending") ~> Settled(i)
    /\ \A i \in QIds : (qReq[i].state = "pending") ~> (qReq[i].fnCalls = 1)
    /\ isProcessingQueue ~> ~isProcessingQueue

\* in the client without circuit breaker every request was made and settled,
\* one by the internal timeout and a later one by its outer timeout, each
\* request function was invoked once, and the queue is idle
C29_Witness ==
    /\ qVersion = 1
    /\ \A i \in QIds : Settled(i) /\ qReq[i].fnCalls = 1
    /\ \E i \in QIds : qReq[i].by = "outerTimeout"
    /\ \E i \in QIds : qReq[i].by = "internalTimeout"
    /\ ~isProcessingQueue
    /\ Deadlines = {}

----------------------------------------------------------------------------
(* Reconstruction requests: transformGridStatusData called directly, or by  *)
(* a controller on what getMarketPrices returned: of the client with the    *)
(* circuit breaker (gridstatus.js lines 1264-1314, both branches) or of the *)
(* client of lines 10-452, whose getMarketPrices (lines 326-349) is the     *)
(* standard branch                                                          *)

\* what the query of a dataset returns when it succeeds
FetchedDayAhead == { <<>>, <<NullItem>>, <<Item("object", "ok", 0, 0, 20, 0)>> }
FetchedRealTime == { <<>>, <<NullItem>>, <<Item("object", "ok", 0, 0, 30, 0)>> }

\* time between the construction or last use of the client and the
\* getMarketPrices call.  A client that was used before has the datasets
\* cached and, in version 3, may have recorded a failure.
CallDelays == {0, 3000}

\* the 2 s timer that the Netlify branch races the real-time fetch against
RaceTimeout == 2000

ReconInit ==
    /\ path \in Paths
    /\ IF path = "direct"
       THEN /\ \/ \E n \in 0 .. MaxRecords :
                     /\ fetchedDA \in SeqsUpTo(DARecords, n)
                     /\ fetchedRT \in SeqsUpTo(RTRecords, MaxRecords - n)
               \/ /\ fetchedDA \in SeqsUpTo(DARecords, 1)
                  /\ fetchedRT \in FullHours
               \/ /\ fetchedDA \in AliasCases
                  /\ fetchedRT \in AliasCases
            /\ tz \in TransformCases
            /\ RateIdle
            /\ QueueIdle
       ELSE /\ fetchedDA \in FetchedDayAhead
            /\ fetchedRT \in FetchedRealTime
            /\ tz \in DateCases
            /\ \E v \in (IF path = "standard" THEN {1, 3} ELSE {3}) :
                  IdleClient(v, 1 .. 3)
            /\ \E d \in CallDelays : clock = QConstructedAt + d
            /\ \/ /\ rpc = [c \in Callers |-> "idle"]
                  /\ circuitBreaker = ClosedBreaker
               \/ /\ rpc = [c \in Callers |-> IF c = "datasets" THEN "cached" ELSE "idle"]
                  /\ circuitBreaker \in
                        {ClosedBreaker} \cup
                           (IF qVersion = 3 THEN {RecordFailure(ClosedBreaker, QConstructedAt)}
                            ELSE {})
    /\ seed = 0
    /\ dayAheadData = <<>> /\ realTimeData = <<>>
    /\ pc = "start"
    /\ out = NoValue
    /\ SettleIdle
    /\ SpikeIdle
    /\ HookIdle
    /\ CacheIdle
    /\ RetryIdle
    /\ CtrlIdle

\* A caller invokes transformGridStatusData on its own raw arrays
CallTransformer ==
    /\ pc = "start" /\ path = "direct"
    /\ \E sd \in Seeds :
          /\ seed' = sd
          /\ out' = TransformGridStatusData(fetchedDA, fetchedRT, tz, sd)
    /\ dayAheadData' = fetchedDA
    /\ realTimeData' = fetchedRT
    /\ pc' = "done"
    /\ UNCHANGED <<path, fetchedDA, fetchedRT, tz, settleVars, spikeVars, hookVars, rateVars, cacheVars,
                 retryVars, queueVars, ctrlVars>>

\* getMarketPrices(date) up to its first await (lines 1264-1271):
\* validateDate, then findCAISOLMPDatasets -> getAvailableDatasets, which
\* returns the cached datasets or makes the datasets request
GetMarketPrices ==
    /\ pc = "start" /\ path \in {"standard", "netlify"}
    /\ IF InvalidDate(tz)
       THEN /\ pc' = "failed"
            /\ out' = [status |-> "threw", error |-> "ApiError400"]
            /\ MakeRequests(<<>>)
            /\ UNCHANGED rpc
       ELSE /\ pc' = "datasets"
            /\ UNCHANGED out
            /\ IF rpc["datasets"] = "cached"
               THEN /\ MakeRequests(<<>>)
                    /\ UNCHANGED rpc
               ELSE /\ MakeRequests(<<ReqOf("datasets")>>)
                    /\ rpc' = [rpc EXCEPT !["datasets"] = "waiting"]
    /\ UNCHANGED <<path, fetchedDA, fetchedRT, dayAheadData, realTimeData, tz, seed>>
    /\ UNCHANGED <<limiter, clock, wakeAt, qVersion>>
    /\ UNCHANGED <<settleVars, spikeVars, hookVars, cacheVars, retryVars, ctrlVars>>

\* the datasets that findCAISOLMPDatasets can find: any of the two when the
\* list is cached or the request resolved, none when the request failed
Findable ==
    IF rpc["datasets"] = "cached" \/ qReq[ReqOf("datasets")].state = "resolved"
    THEN SUBSET {"dayAhead", "realTime"}
    ELSE {{}}

\* findCAISOLMPDatasets returns (lines 1216-1243) and getMarketPrices calls
\* fetchDatasetData: for both datasets at once in the standard branch
\* (Promise.all), for the day-ahead dataset in the Netlify branch.
\* fetchDatasetData makes a request only for a dataset that was found.
DatasetsFound ==
    /\ pc = "datasets"
    /\ rpc["datasets"] = "cached" \/ Ready("datasets")
    /\ \E found \in Findable :
          LET position(c) == IF c \in found THEN "waiting" ELSE "nodataset"
          IN  IF path = "standard"
              THEN /\ pc' = "fetching"
                   /\ rpc' = [c \in Callers |->
                                IF c = "datasets" THEN "returned" ELSE position(c)]
                   /\ MakeRequests(
                         (IF "dayAhead" \in found THEN <<ReqOf("dayAhead")>> ELSE <<>>)
                            \o (IF "realTime" \in found THEN <<ReqOf("realTime")>> ELSE <<>>))
              ELSE /\ pc' = "fetchingDA"
                   /\ rpc' = [c \in Callers |->
                                IF c = "datasets" THEN "returned"
                                ELSE IF c = "dayAhead" THEN position(c)
                                ELSE IF c \in found THEN "found" ELSE "nodataset"]
                   /\ MakeRequests(
                         IF "dayAhead" \in found THEN <<ReqOf("dayAhead")>> ELSE <<>>)
    /\ UNCHANGED <<path, fetchedDA, fetchedRT, dayAheadData, realTimeData, tz, seed, out>>
    /\ UNCHANGED <<limiter, clock, wakeAt, qVersion>>
    /\ UNCHANGED <<settleVars, spikeVars, hookVars, cacheVars, retryVars, ctrlVars>>

\* what fetchDatasetData of caller c returns (lines 1321-1348): the records
\* of the response, [] without a dataset or when the request was rejected
FetchDatasetData(c) ==
    IF rpc[c] = "waiting" /\ qReq[ReqOf(c)].state = "resolved"
    THEN (IF c = "dayAhead" THEN fetchedDA ELSE fetchedRT)
    ELSE <<>>

\* getMarketPrices, standard branch (lines 1300-1313), once Promise.all of
\* the two fetches is settled: the two distribution logs, then the
\* both-empty check
GetMarketPricesStandard ==
    /\ pc = "fetching" /\ path = "standard"
    /\ Ready("dayAhead") /\ Ready("realTime")
    /\ LET da == FetchDatasetData("dayAhead")
           rt == FetchDatasetData("realTime")
       IN  IF LogDistributionThrows(da) \/ LogDistributionThrows(rt)
           THEN /\ pc' = "failed"
                /\ out' = [status |-> "threw", error |-> "TypeError"]
                /\ UNCHANGED <<dayAheadData, realTimeData>>
           ELSE IF Len(da) = 0 /\ Len(rt) = 0
           THEN /\ pc' = "failed"
                /\ out' = [status |-> "threw", error |-> "ApiError404"]
                /\ UNCHANGED <<dayAheadData, realTimeData>>
           ELSE /\ pc' = "fetched"
                /\ dayAheadData' = da
                /\ realTimeData' = rt
                /\ UNCHANGED out
    /\ UNCHANGED <<path, fetchedDA, fetchedRT, tz, seed, settleVars, spikeVars, hookVars, rateVars, cacheVars,
                 retryVars, queueVars, ctrlVars>>

\* getMarketPrices, Netlify branch (lines 1276-1288): the day-ahead fetch
\* has returned; the real-time fetch is started and raced against a 2 s
\* timer
NetlifyDayAheadFetched ==
    /\ pc = "fetchingDA" /\ path = "netlify"
    /\ Ready("dayAhead")
    /\ dayAheadData' = FetchDatasetData("dayAhead")
    /\ pc' = "fetchingRT"
    /\ wakeAt' = [wakeAt EXCEPT !["realTime"] = clock + RaceTimeout]
    /\ IF rpc["realTime"] = "found"
       THEN /\ MakeRequests(<<ReqOf("realTime")>>)
            /\ rpc' = [rpc EXCEPT !["realTime"] = "waiting"]
       ELSE /\ MakeRequests(<<>>)
            /\ UNCHANGED rpc
    /\ UNCHANGED <<path, fetchedDA, fetchedRT, realTimeData, tz, seed, out>>
    /\ UNCHANGED <<limiter, clock, qVersion>>
    /\ UNCHANGED <<settleVars, spikeVars, hookVars, cacheVars, retryVars, ctrlVars>>

\* the end of the Netlify branch (lines 1289-1299) with rt as realTimeData:
\* the two distribution logs, no emptiness check; an exception inside the
\* try becomes ApiError 404
NetlifyReturns(rt) ==
    /\ IF LogDistributionThrows(dayAheadData) \/ LogDistributionThrows(rt)
       THEN /\ pc' = "failed"
            /\ out' = [status |-> "threw", error |-> "ApiError404"]
            /\ UNCHANGED realTimeData
       ELSE /\ pc' = "fetched"
            /\ realTimeData' = rt
            /\ UNCHANGED out
    /\ UNCHANGED <<path, fetchedDA, fetchedRT, dayAheadData, tz, seed, settleVars, spikeVars, hookVars, rateVars, cacheVars,
                 retryVars, queueVars, ctrlVars>>

\* getMarketPrices, Netlify branch: the real-time fetch wins the race
GetMarketPricesNetlify ==
    /\ pc = "fetchingRT" /\ path = "netlify"
    /\ Ready("realTime")
    /\ NetlifyReturns(FetchDatasetData("realTime"))

\* getMarketPrices, Netlify branch: the 2 s timer wins the race and
\* realTimeData stays []; the real-time request is left in the queue
RealTimeRaceLost ==
    /\ pc = "fetchingRT" /\ path = "netlify"
    /\ ~JobsPending
    /\ wakeAt["realTime"] <= clock
    /\ NetlifyReturns(<<>>)

\* transformMarketData of the controllers: transformGridStatusData on the
\* fetched arrays
TransformMarketData ==
    /\ pc = "fetched"
    /\ \E sd \in Seeds :
          /\ seed' = sd
          /\ out' = TransformGridStatusData(dayAheadData, realTimeData, tz, sd)
    /\ pc' = "done"
    /\ UNCHANGED <<path, fetchedDA, fetchedRT, dayAheadData, realTimeData, tz, settleVars, spikeVars, hookVars, rateVars, cacheVars,
                 retryVars, queueVars, ctrlVars>>

ReconNext ==
    \/ CallTransformer
    \/ GetMarketPrices
    \/ DatasetsFound
    \/ GetMarketPricesStandard
    \/ NetlifyDayAheadFetched
    \/ GetMarketPricesNetlify
    \/ RealTimeRaceLost
    \/ TransformMarketData
    \/ QueueTimers

SpecRecon == ReconInit /\ [][ReconNext]_vars

----------------------------------------------------------------------------
(* simulateTradeExecution *)

\* 0 / 0
NaNRat == <<0, 0>>

\* dayAheadPrices.find(d => d.hour === bid.hour): index of the first entry
\* of the hour, 0 when there is none
FindHour(entries, hour) ==
    LET idx == {i \in 1 .. Len(entries) : entries[i].hour = hour}
    IN  IF idx = {} THEN 0 ELSE CHOOSE j \in idx : \A k \in idx : j <= k

\* rtData.prices.reduce((sum, p) => sum + p.price, 0) / rtData.prices.length
AvgRtPrice(rtData) ==
    Average([i \in 1 .. Len(rtData.prices) |-> rtData.prices[i].price])

\* let totalProfit = 0
InitialTotalProfit == R(0)

\* the trade pushed for a bid without market data
NoDataTrade(bid) ==
    [id |-> bid.id, hour |-> bid.hour, type |-> bid.type, price |-> bid.price,
     quantity |-> bid.quantity,
     executed |-> FALSE, profit |-> R(0),
     error |-> "No market data available for this hour"]

\* Executes with strict comparisons
ExecutesStrict(bid, daPrice) ==
    \/ bid.type = "buy" /\ RLt(daPrice, bid.price)
    \/ bid.type = "sell" /\ RLt(bid.price, daPrice)

\* bid.type === 'buy' && bid.price >= daPrice, else
\* bid.type === 'sell' && bid.price <= daPrice
Executes(bid, daPrice) ==
    \/ bid.type = "buy" /\ RLe(daPrice, bid.price)
    \/ bid.type = "sell" /\ RLe(bid.price, daPrice)

\* Profit with the long formula for both sides
ProfitLongOnly(bid, daPrice, avgRtPrice) ==
    RMul(RSub(avgRtPrice, daPrice), R(bid.quantity))

\* profit of an executed bid
Profit(bid, daPrice, avgRtPrice) ==
    IF bid.type = "buy"
    THEN RMul(RSub(avgRtPrice, daPrice), R(bid.quantity))
    ELSE RMul(RSub(daPrice, avgRtPrice), R(bid.quantity))

\* the trade pushed for a bid with market data
MarketTrade(bid, daPrice, avgRtPrice) ==
    IF Executes(bid, daPrice)
    THEN [id |-> bid.id, hour |-> bid.hour, type |-> bid.type, price |-> bid.price,
          quantity |-> bid.quantity,
          executed |-> TRUE, executionPrice |-> daPrice,
          avgRealTimePrice |-> avgRtPrice,
          profit |-> Profit(bid, daPrice, avgRtPrice),
          profitPerMWh |-> RDivI(Profit(bid, daPrice, avgRtPrice), bid.quantity)]
    ELSE [id |-> bid.id, hour |-> bid.hour, type |-> bid.type, price |-> bid.price,
          quantity |-> bid.quantity,
          executed |-> FALSE, profit |-> R(0),
          reason |-> IF bid.type = "buy"
                     THEN "Bid price below market price"
                     ELSE "Bid price above market price"]

\* the body of bids.forEach for one bid
TradeOf(bid, dayAheadPrices, realTimePrices) ==
    LET d == FindHour(dayAheadPrices, bid.hour)
        r == FindHour(realTimePrices, bid.hour)
    IN  IF d = 0 \/ r = 0
        THEN NoDataTrade(bid)
        ELSE MarketTrade(bid, dayAheadPrices[d].price, AvgRtPrice(realTimePrices[r]))

\* bids.forEach: results and totalProfit after the bids from index i on
RECURSIVE ForEachBid(_, _, _, _, _)
ForEachBid(bs, dayAheadPrices, realTimePrices, i, acc) ==
    IF i > Len(bs) THEN acc
    ELSE LET t == TradeOf(bs[i], dayAheadPrices, realTimePrices)
         IN  ForEachBid(bs, dayAheadPrices, realTimePrices, i + 1,
                 [results |-> Append(acc.results, t),
                  totalProfit |-> IF t.executed
                                  THEN RAdd(acc.totalProfit, t.profit)
                                  ELSE acc.totalProfit])

\* ExecutedCount without the filter
ExecutedCountAll(results) == Len(results)

\* results.filter(r => r.executed).length
ExecutedCount(results) == Cardinality({i \in 1 .. Len(results) : results[i].executed})

\* (executed / bids.length) * 100
SuccessRate(executed, totalBids) ==
    IF totalBids = 0 THEN NaNRat ELSE RNorm(executed * 100, totalBids)

\* executed > 0 ? totalProfit / executed : 0
AvgProfitPerTrade(totalProfit, executed) ==
    IF executed > 0 THEN RDivI(totalProfit, executed) ELSE R(0)

simulateTradeExecution(bs, dayAheadPrices, realTimePrices) ==
    LET acc == ForEachBid(bs, dayAheadPrices, realTimePrices, 1,
                          [results |-> <<>>, totalProfit |-> InitialTotalProfit])
        executed == ExecutedCount(acc.results)
    IN  [status |-> "returned",
         trades |-> acc.results,
         totalProfit |-> acc.totalProfit,
         summary |-> [totalBids |-> Len(bs),
                      executedTrades |-> executed,
                      successRate |-> SuccessRate(executed, Len(bs)),
                      avgProfitPerTrade |-> AvgProfitPerTrade(acc.totalProfit, executed)]]

----------------------------------------------------------------------------
(* Simulation requests *)

BidHours == {0, 17}
BidPrices == {50, 55}
BidQuantities == {5, 10}

BidShapes ==
    [hour : BidHours, type : {"buy", "sell"}, price : BidPrices, quantity : BidQuantities]

\* the bid list of a request: ids are the positions
MakeBids(shapes) ==
    [i \in 1 .. Len(shapes) |->
        [id |-> i, hour |-> shapes[i].hour, type |-> shapes[i].type,
         price |-> R(shapes[i].price), quantity |-> shapes[i].quantity]]

DAEntry(h, p) == [hour |-> h, price |-> R(p), dataQuality |-> "actual"]
RTEntry(h, ps) ==
    [hour |-> h,
     prices |-> [i \in 1 .. Len(ps) |-> [interval |-> i - 1, price |-> R(ps[i])]],
     dataQuality |-> "actual"]

\* day-ahead arrays: hour 0 at 50 or 60, hour 17 at 50 or without an entry
DAMarkets ==
    { <<DAEntry(0, p)>> : p \in {50, 60} }
    \cup { <<DAEntry(0, p), DAEntry(17, 50)>> : p \in {50, 60} }

\* real-time arrays: hour 0 averaging 60 or 45, hour 17 at 60 or without an entry
RTMarkets ==
    { <<RTEntry(0, ps)>> : ps \in {<<60, 60, 60, 60>>, <<40, 45, 45, 50>>} }
    \cup { <<RTEntry(0, ps), RTEntry(17, <<60, 60, 60, 60>>)>> :
             ps \in {<<60, 60, 60, 60>>, <<40, 45, 45, 50>>} }

SettleInit ==
    /\ \E shapes \in SeqsUpTo(BidShapes, MaxBids) : bids = MakeBids(shapes)
    /\ daIn \in DAMarkets
    /\ rtIn \in RTMarkets
    /\ sim = NoValue
    /\ calls = 0
    /\ ReconIdle
    /\ SpikeIdle
    /\ HookIdle
    /\ RateIdle
    /\ CacheIdle
    /\ RetryIdle
    /\ QueueIdle
    /\ CtrlIdle

\* simulateTradeExecution(bids, dayAheadPrices, realTimePrices)
Simulate ==
    /\ calls < MaxCalls
    /\ sim' = simulateTradeExecution(bids, daIn, rtIn)
    /\ calls' = calls + 1
    /\ UNCHANGED <<bids, daIn, rtIn, reconVars, spikeVars, hookVars, rateVars, cacheVars,
                 retryVars, queueVars, ctrlVars>>

\* a call on other arguments (the bid list without its first bid) between
\* two calls on the request's arguments
SimulateOther ==
    /\ calls > 0 /\ calls < MaxCalls
    /\ Len(bids) > 0
    /\ sim' = simulateTradeExecution(Tail(bids), daIn, rtIn)
    /\ UNCHANGED <<bids, daIn, rtIn, calls, reconVars, spikeVars, hookVars, rateVars, cacheVars,
                 retryVars, queueVars, ctrlVars>>

SettleNext == Simulate \/ SimulateOther

SpecSettle == SettleInit /\ [][SettleNext]_vars

----------------------------------------------------------------------------
(* Properties of the reconstruction *)

Returned == pc = "done" /\ out.status = "returned"

SeqToSet(q) == {q[i] : i \in 1 .. Len(q)}

\* the arrays have 24 entries, hours 0..23 in order, 4 intervals 0..3 each
CompleteDay(res) ==
    /\ Len(res.dayAheadPrices) = 24
    /\ Len(res.realTimePrices) = 24
    /\ \A i \in 1 .. 24 :
          /\ res.dayAheadPrices[i].hour = i - 1
          /\ res.realTimePrices[i].hour = i - 1
          /\ Len(res.realTimePrices[i].prices) = 4
          /\ \A k \in 1 .. 4 : res.realTimePrices[i].prices[k].interval = k - 1

\* C1: for any date, timezone and non-empty raw input (malformed records
\* included) transformGridStatusData returns two arrays of exactly 24 entries
\* with hours 0..23 in order, every real-time entry with intervals 0..3.
C1_AlwaysCompleteDay ==
    (pc = "done" /\ Len(dayAheadData) + Len(realTimeData) > 0)
        => (out.status = "returned" /\ CompleteDay(out))

\* C2: in every reconstruction result actualHours, interpolatedHours and
\* fallbackHours are pairwise disjoint, their union is 0..23, and hour h is in
\* the list that matches dayAheadPrices[h].dataQuality.
C2_QualityPartition ==
    Returned =>
        LET a == SeqToSet(out.metadata.actualHours)
            n == SeqToSet(out.metadata.interpolatedHours)
            f == SeqToSet(out.metadata.fallbackHours)
        IN  /\ a \cap n = {} /\ a \cap f = {} /\ n \cap f = {}
            /\ a \cup n \cup f = 0 .. 23
            /\ Len(out.metadata.actualHours) + Len(out.metadata.interpolatedHours)
                  + Len(out.metadata.fallbackHours) = 24
            /\ \A h \in 0 .. 23 :
                  LET q == out.dayAheadPrices[h + 1].dataQuality
                  IN  /\ (h \in a) <=> (q = "actual")
                      /\ (h \in n) <=> (q = "interpolated")
                      /\ (h \in f) <=> (q = "fallback")

\* a result in which all three lists are populated
C2_Witness ==
    /\ Returned
    /\ out.metadata.actualHours # <<>>
    /\ out.metadata.interpolatedHours # <<>>
    /\ out.metadata.fallbackHours # <<>>

\* C3: when both raw lists are empty the reconstruction raises and returns no
\* 24-hour result, on every path that feeds the reconstructor (the Netlify
\* branch of getMarketPrices included).
C3_EmptyInputRaises ==
    (path \in {"standard", "netlify"} /\ pc = "done"
        /\ dayAheadData = <<>> /\ realTimeData = <<>>)
        => out.status = "threw"

\* a malformed record in the sense of the parsing checks
Malformed(item) ==
    \/ item.obj # "object"
    \/ item.ts \in {"missing", "nonstring", "bad"}
    \/ InvalidPrice(ParsePrice(item))

RemoveAt(q, i) == SubSeq(q, 1, i - 1) \o SubSeq(q, i + 1, Len(q))

\* prices, record counts and quality tags of a result
Core(res) ==
    IF res.status = "returned"
    THEN <<res.dayAheadPrices, res.realTimePrices, res.metadata.actualHours,
           res.metadata.interpolatedHours, res.metadata.fallbackHours>>
    ELSE <<res.status>>

\* C4: a malformed raw record never aborts transformGridStatusData and
\* contributes to no hour: the result equals the result of the same call
\* (same random draws) with that record removed.
C4_MalformedRecordIgnored ==
    pc = "done" =>
        /\ \A i \in 1 .. Len(dayAheadData) :
              Malformed(dayAheadData[i]) =>
                  /\ out.status = "returned"
                  /\ Core(out) = Core(TransformGridStatusData(
                                    RemoveAt(dayAheadData, i), realTimeData, tz, seed))
        /\ \A i \in 1 .. Len(realTimeData) :
              Malformed(realTimeData[i]) =>
                  /\ out.status = "returned"
                  /\ Core(out) = Core(TransformGridStatusData(
                                    dayAheadData, RemoveAt(realTimeData, i), tz, seed))

----------------------------------------------------------------------------
(* Properties of the settlement *)

Simulated == calls > 0 /\ sim.status = "returned"

\* the result of the last call is the result for the request's bid list
OwnResult == Simulated /\ Len(sim.trades) = Len(bids)

HasMarketData(hour) == FindHour(daIn, hour) # 0 /\ FindHour(rtIn, hour) # 0

ClearingPrice(hour) == daIn[FindHour(daIn, hour)].price

\* mean of the 4 real-time interval prices of the hour
SettlementPrice(hour) ==
    LET ps == rtIn[FindHour(rtIn, hour)].prices
    IN  RDivI(RAdd(RAdd(ps[1].price, ps[2].price), RAdd(ps[3].price, ps[4].price)), 4)

\* C5: a bid with market data executes iff buy and bid.price >= day-ahead
\* price, or sell and bid.price <= day-ahead price (equality included); an
\* executed trade has executionPrice equal to that day-ahead price.
C5_ExecutionRule ==
    OwnResult =>
        \A i \in 1 .. Len(bids) :
            HasMarketData(bids[i].hour) =>
                LET t == sim.trades[i]
                    c == ClearingPrice(bids[i].hour)
                    p == bids[i].price
                IN  /\ t.executed <=>
                          \/ bids[i].type = "buy" /\ p[1] * c[2] >= c[1] * p[2]
                          \/ bids[i].type = "sell" /\ p[1] * c[2] <= c[1] * p[2]
                    /\ t.executed => t.executionPrice = c

\* a buy and a sell, both priced exactly at the clearing price, both executed
C5_Witness ==
    /\ OwnResult
    /\ \E i, j \in 1 .. Len(bids) :
          /\ bids[i].type = "buy" /\ bids[j].type = "sell"
          /\ HasMarketData(bids[i].hour) /\ HasMarketData(bids[j].hour)
          /\ bids[i].price = ClearingPrice(bids[i].hour)
          /\ bids[j].price = ClearingPrice(bids[j].hour)
          /\ sim.trades[i].executed /\ sim.trades[j].executed

\* C6: an executed buy has profit (settlement - execution) * quantity, an
\* executed sell (execution - settlement) * quantity, with the settlement
\* price the mean of the 4 interval prices of the hour; a trade that is not
\* executed has profit 0.
C6_ProfitFormula ==
    OwnResult =>
        \A i \in 1 .. Len(bids) :
            LET t == sim.trades[i]
            IN  IF t.executed
                THEN LET s == SettlementPrice(bids[i].hour)
                         e == t.executionPrice
                         q == R(bids[i].quantity)
                     IN  t.profit = IF bids[i].type = "buy"
                                    THEN RMul(RSub(s, e), q)
                                    ELSE RMul(RSub(e, s), q)
                ELSE t.profit = R(0)

\* an executed buy with a gain and an executed sell with a loss, settled on
\* an hour whose 4 interval prices differ
C6_Witness ==
    /\ OwnResult
    /\ \E i, j \in 1 .. Len(bids) :
          /\ bids[i].type = "buy" /\ sim.trades[i].executed
          /\ RLt(R(0), sim.trades[i].profit)
          /\ bids[j].type = "sell" /\ sim.trades[j].executed
          /\ RLt(sim.trades[j].profit, R(0))
    /\ \E k \in 1 .. Len(rtIn) : rtIn[k].prices[1].price # rtIn[k].prices[4].price

ExecutedTrades(res) == {i \in 1 .. Len(res.trades) : res.trades[i].executed}

RECURSIVE SumProfit(_, _)
SumProfit(res, I) ==
    IF I = {} THEN R(0)
    ELSE LET i == CHOOSE x \in I : TRUE
         IN  RAdd(res.trades[i].profit, SumProfit(res, I \ {i}))

Aggregates(res) ==
    /\ res.totalProfit = SumProfit(res, ExecutedTrades(res))
    /\ res.summary.executedTrades = Cardinality(ExecutedTrades(res))
    /\ res.summary.avgProfitPerTrade =
          IF ExecutedTrades(res) = {} THEN R(0)
          ELSE RDivI(res.totalProfit, Cardinality(ExecutedTrades(res)))

\* C7 as stated: for a non-empty bid list totalProfit is the sum of the
\* executed profits, executedTrades their number, successRate =
\* executedTrades / totalBids and avgProfitPerTrade = totalProfit /
\* executedTrades (0 when none executed).
C7_AggregatesFraction ==
    (OwnResult /\ Len(bids) > 0) =>
        /\ Aggregates(sim)
        /\ sim.summary.successRate =
              RNorm(Cardinality(ExecutedTrades(sim)), sim.summary.totalBids)

\* C7 amended: as above, with successRate the percentage
\* executedTrades / totalBids * 100.
C7_AggregatesPercent ==
    (OwnResult /\ Len(bids) > 0) =>
        /\ Aggregates(sim)
        /\ sim.summary.totalBids = Len(bids)
        /\ sim.summary.successRate =
              RDivI(R(100 * Cardinality(ExecutedTrades(sim))), Len(bids))

\* two bids, one executed with a non-zero profit and one not executed
C7_Witness ==
    /\ OwnResult /\ Len(bids) = 2
    /\ Cardinality(ExecutedTrades(sim)) = 1
    /\ sim.totalProfit # R(0)
    /\ sim.summary.successRate = R(50)

BidOf(t) == [id |-> t.id, hour |-> t.hour, type |-> t.type, price |-> t.price,
             quantity |-> t.quantity]

\* C8: a bid whose hour lacks a day-ahead or a real-time entry yields a trade
\* with executed = false, profit 0 and a populated reason field; the batch is
\* not aborted: one trade per bid in input order, and the other bids' trades
\* are those of the call without that bid.
C8_MissingHourBid ==
    OwnResult =>
        /\ \A i \in 1 .. Len(bids) : BidOf(sim.trades[i]) = bids[i]
        /\ \A i \in 1 .. Len(bids) :
              ~HasMarketData(bids[i].hour) =>
                  /\ sim.trades[i].executed = FALSE
                  /\ sim.trades[i].profit = R(0)
                  /\ "reason" \in DOMAIN sim.trades[i]
                  /\ RemoveAt(sim.trades, i) =
                        simulateTradeExecution(RemoveAt(bids, i), daIn, rtIn).trades

----------------------------------------------------------------------------
(* SpikeAnalyzer.detectSpikes *)

DEFAULT_THRESHOLDS ==
    [minMagnitude |-> R(5), minDuration |-> R(15), spatialRadius |-> R(50),
     zScoreThreshold |-> <<3, 2>>]

SEVERITY_THRESHOLDS == [critical |-> R(50), high |-> R(25), medium |-> R(10), low |-> R(0)]

WINDOW_SIZE == 6

\* { ...DEFAULT_THRESHOLDS, ...thresholds }
MergeConfig(th) ==
    [k \in DOMAIN DEFAULT_THRESHOLDS |->
        IF k \in DOMAIN th THEN th[k] ELSE DEFAULT_THRESHOLDS[k]]

\* calculateStatistics(window): mean and variance (stdDev is its square root)
CalculateStatistics(window) ==
    LET ps == [j \in 1 .. Len(window) |-> window[j].price]
        mean == Average(ps)
        sq == [j \in 1 .. Len(ps) |-> RMul(RSub(ps[j], mean), RSub(ps[j], mean))]
    IN  [mean |-> mean, variance |-> Average(sq)]

\* square of zScore = stdDev > 0 ? |currentPrice - mean| / stdDev : 0
ZScoreSq(currentPrice, stats) ==
    IF RLt(R(0), stats.variance)
    THEN LET m == RAbs(RSub(currentPrice, stats.mean))
         IN  RNorm(m[1] * m[1] * stats.variance[2], m[2] * m[2] * stats.variance[1])
    ELSE R(0)

\* zScore > zScoreThreshold, on the square of zScore
ZScoreAbove(zScoreSq, zScoreThreshold) ==
    \/ RLt(zScoreThreshold, R(0))
    \/ RLt(RMul(zScoreThreshold, zScoreThreshold), zScoreSq)

\* isSpikeDetected with the two criteria joined by && instead of ||
IsSpikeDetectedBoth(zScoreSq, magnitude, config) ==
    /\ ZScoreAbove(zScoreSq, config.zScoreThreshold)
    /\ RLt(config.minMagnitude, magnitude)
    /\ RLt(RMul(config.minMagnitude, R(2)), magnitude)

\* isSpikeDetected(zScore, magnitude, config)
IsSpikeDetected(zScoreSq, magnitude, config) ==
    \/ /\ ZScoreAbove(zScoreSq, config.zScoreThreshold)
       /\ RLt(config.minMagnitude, magnitude)
    \/ RLt(RMul(config.minMagnitude, R(2)), magnitude)

\* calculateSeverity with >= in place of >
CalculateSeverityInclusive(magnitude) ==
    IF RLe(SEVERITY_THRESHOLDS.critical, magnitude) THEN "critical"
    ELSE IF RLe(SEVERITY_THRESHOLDS.high, magnitude) THEN "high"
    ELSE IF RLe(SEVERITY_THRESHOLDS.medium, magnitude) THEN "medium"
    ELSE "low"

\* calculateSeverity(magnitude)
CalculateSeverity(magnitude) ==
    IF RLt(SEVERITY_THRESHOLDS.critical, magnitude) THEN "critical"
    ELSE IF RLt(SEVERITY_THRESHOLDS.high, magnitude) THEN "high"
    ELSE IF RLt(SEVERITY_THRESHOLDS.medium, magnitude) THEN "medium"
    ELSE "low"

\* distance of two locations: Math.abs(i - currentLocationIndex) * 10
DistancePerIndex == 10

\* nearby.slice(0, 5)
MaxNearby == 5

\* findNearbyPrices(priceData, currentLocationIndex, timeIndex, radius);
\* indices are 0-based as in the code
RECURSIVE NearbyFrom(_, _, _, _, _)
NearbyFrom(pd, i, currentLocationIndex, timeIndex, radius) ==
    IF i >= Len(pd) THEN <<>>
    ELSE LET rest == NearbyFrom(pd, i + 1, currentLocationIndex, timeIndex, radius)
             distance == Abs(i - currentLocationIndex) * DistancePerIndex
         IN  IF /\ i # currentLocationIndex
                /\ timeIndex < Len(pd[i + 1].prices)
                /\ RLe(R(distance), radius)
             THEN <<[location |-> pd[i + 1].location,
                     price |-> pd[i + 1].prices[timeIndex + 1].price,
                     distance |-> distance]>> \o rest
             ELSE rest

\* findNearbyPrices returning every nearby entry, without the slice
FindNearbyPricesAll(pd, currentLocationIndex, timeIndex, radius) ==
    NearbyFrom(pd, 0, currentLocationIndex, timeIndex, radius)

FindNearbyPrices(pd, currentLocationIndex, timeIndex, radius) ==
    LET nearby == NearbyFrom(pd, 0, currentLocationIndex, timeIndex, radius)
    IN  SubSeq(nearby, 1, IF Len(nearby) < MaxNearby THEN Len(nearby) ELSE MaxNearby)

\* Math.min(zScore / 5, 1), squared
ConfidenceSq(zScoreSq) ==
    LET c == RDivI(zScoreSq, 25) IN IF RLt(c, R(1)) THEN c ELSE R(1)

\* detectSpikeAtIndex(prices, index, ...): the spike object, or NoValue for null
DetectSpikeAtIndex(pd, locationIndex, index, config) ==
    LET prices == pd[locationIndex + 1].prices
        window == SubSeq(prices, index - WINDOW_SIZE + 1, index)
        stats == CalculateStatistics(window)
        currentPrice == prices[index + 1].price
        zScoreSq == ZScoreSq(currentPrice, stats)
        magnitude == RAbs(RSub(currentPrice, stats.mean))
    IN  IF IsSpikeDetected(zScoreSq, magnitude, config)
        THEN [status |-> "spike",
              id |-> <<locationIndex, index>>,
              timestamp |-> prices[index + 1].timestamp,
              location |-> pd[locationIndex + 1].location,
              price |-> currentPrice,
              baselinePrice |-> stats.mean,
              magnitude |-> magnitude,
              type |-> IF RLt(stats.mean, currentPrice) THEN "positive" ELSE "negative",
              severity |-> CalculateSeverity(magnitude),
              nearbyLocations |-> FindNearbyPrices(pd, locationIndex, index, config.spatialRadius),
              confidenceSq |-> ConfidenceSq(zScoreSq),
              zScoreSq |-> zScoreSq]
        ELSE NoValue

\* analyzeLocationSpikes: for (i = WINDOW_SIZE; i < prices.length; i++)
RECURSIVE AnalyzeFrom(_, _, _, _)
AnalyzeFrom(pd, locationIndex, i, config) ==
    IF i >= Len(pd[locationIndex + 1].prices) THEN <<>>
    ELSE LET spike == DetectSpikeAtIndex(pd, locationIndex, i, config)
         IN  (IF spike.status = "spike" THEN <<spike>> ELSE <<>>)
                \o AnalyzeFrom(pd, locationIndex, i + 1, config)

AnalyzeLocationSpikes(pd, locationIndex, config) ==
    AnalyzeFrom(pd, locationIndex, WINDOW_SIZE, config)

\* timeThreshold = 15 * 60 * 1000
TimeThresholdMs == 900000

\* areSpikesDuplicate(spike1, spike2, timeThreshold)
AreSpikesDuplicate(spike1, spike2) ==
    /\ spike1.location = spike2.location
    /\ Abs(spike1.timestamp - spike2.timestamp) < TimeThresholdMs

\* the forEach of filterDuplicateSpikes
RECURSIVE KeepFirsts(_, _)
KeepFirsts(spikes, filtered) ==
    IF spikes = <<>> THEN filtered
    ELSE LET spike == Head(spikes)
             isDuplicate == \E k \in 1 .. Len(filtered) : AreSpikesDuplicate(filtered[k], spike)
         IN  KeepFirsts(Tail(spikes), IF isDuplicate THEN filtered ELSE Append(filtered, spike))

\* filtered.sort((a, b) => b.magnitude - a.magnitude): stable, descending
RECURSIVE SortByMagnitude(_)
SortByMagnitude(q) ==
    IF q = <<>> THEN <<>>
    ELSE LET sorted == SortByMagnitude(SubSeq(q, 1, Len(q) - 1))
             x == q[Len(q)]
             n == Cardinality({k \in 1 .. Len(sorted) : RLe(x.magnitude, sorted[k].magnitude)})
         IN  SubSeq(sorted, 1, n) \o <<x>> \o SubSeq(sorted, n + 1, Len(sorted))

\* filterDuplicateSpikes without the forEach that drops duplicates
FilterDuplicateSpikesSortOnly(spikes) == SortByMagnitude(spikes)

\* filterDuplicateSpikes(spikes)
FilterDuplicateSpikes(spikes) == SortByMagnitude(KeepFirsts(spikes, <<>>))

\* spikes.push(...locationSpikes) over the locations from index li on
RECURSIVE AllLocationSpikes(_, _, _)
AllLocationSpikes(pd, li, config) ==
    IF li >= Len(pd) THEN <<>>
    ELSE AnalyzeLocationSpikes(pd, li, config) \o AllLocationSpikes(pd, li + 1, config)

\* detectSpikes without the call of validatePriceData
DetectSpikesUnvalidated(pd, th) ==
    IF \E li \in 1 .. Len(pd) : Len(pd[li].prices) = 0
    THEN [status |-> "threw", error |-> "ApiError500"]
    ELSE LET spikes == AllLocationSpikes(pd, 0, MergeConfig(th))
         IN  [status |-> "returned",
              spikes |-> FilterDuplicateSpikes(spikes),
              detected |-> spikes]

\* detectSpikes(priceData, thresholds): the value returned (with the list
\* before filtering) or the ApiError thrown
DetectSpikes(pd, th) ==
    IF Len(pd) = 0
    THEN [status |-> "threw", error |-> "ApiError400"]
    ELSE IF \E li \in 1 .. Len(pd) : Len(pd[li].prices) = 0
    THEN [status |-> "threw", error |-> "ApiError500"]
    ELSE LET spikes == AllLocationSpikes(pd, 0, MergeConfig(th))
         IN  [status |-> "returned",
              spikes |-> FilterDuplicateSpikes(spikes),
              detected |-> spikes]

----------------------------------------------------------------------------
(* SpikeAnalyzer.generateGridEvents *)

\* new Date(spike.timestamp).getHours(), the server clock being UTC
HourOf(timestamp) == (timestamp \div 3600000) % 24

\* keys of the timeGroups Map in insertion order
RECURSIVE GroupHours(_, _)
GroupHours(spikes, seen) ==
    IF spikes = <<>> THEN seen
    ELSE LET hour == HourOf(Head(spikes).timestamp)
         IN  GroupHours(Tail(spikes),
                        IF \E k \in 1 .. Len(seen) : seen[k] = hour
                        THEN seen ELSE Append(seen, hour))

\* timeGroups.get(hour)
HourSpikes(spikes, hour) ==
    LET InHour(sp) == HourOf(sp.timestamp) = hour
    IN  SelectSeq(spikes, InHour)

\* groupSpikesByTime(spikes)
GroupSpikesByTime(spikes) ==
    LET hours == GroupHours(spikes, <<>>)
    IN  [k \in 1 .. Len(hours) |-> [hour |-> hours[k], hourSpikes |-> HourSpikes(spikes, hours[k])]]

\* calculateAverageMagnitude(spikes)
CalculateAverageMagnitude(spikes) ==
    Average([k \in 1 .. Len(spikes) |-> spikes[k].magnitude])

\* getEventSeverity(avgMagnitude)
GetEventSeverity(avgMagnitude) ==
    IF RLt(R(150), avgMagnitude) THEN "high"
    ELSE IF RLt(R(75), avgMagnitude) THEN "medium"
    ELSE "low"

\* Math.min(a, b)
RMin(a, b) == IF RLt(b, a) THEN b ELSE a

\* calculateEventConfidence without the caps of the two increments
CalculateEventConfidenceUncapped(spikes) ==
    LET bySpikes == <<Len(spikes), 10>>
        byMagnitude == RDivI(CalculateAverageMagnitude(spikes), 200)
    IN  RMin(RAdd(RAdd(<<1, 2>>, bySpikes), byMagnitude), <<95, 100>>)

\* calculateEventConfidence(spikes)
CalculateEventConfidence(spikes) ==
    LET bySpikes == RMin(<<Len(spikes), 10>>, <<3, 10>>)
        byMagnitude == RMin(RDivI(CalculateAverageMagnitude(spikes), 200), <<2, 10>>)
    IN  RMin(RAdd(RAdd(<<1, 2>>, bySpikes), byMagnitude), <<95, 100>>)

\* the event pushed for one time group
GridEvent(group) ==
    LET avgMagnitude == CalculateAverageMagnitude(group.hourSpikes)
    IN  [hour |-> group.hour,
         type |-> IF RLt(R(100), avgMagnitude) THEN "transmission_outage" ELSE "congestion",
         affectedLocations |-> [k \in 1 .. Len(group.hourSpikes) |-> group.hourSpikes[k].location],
         estimatedImpact |-> avgMagnitude,
         severity |-> GetEventSeverity(avgMagnitude),
         confidence |-> CalculateEventConfidence(group.hourSpikes)]

\* createEventsFromTimeGroups with an event for every group
RECURSIVE CreateEventsFromEveryGroup(_)
CreateEventsFromEveryGroup(timeGroups) ==
    IF timeGroups = <<>> THEN <<>>
    ELSE <<GridEvent(Head(timeGroups))>> \o CreateEventsFromEveryGroup(Tail(timeGroups))

\* createEventsFromTimeGroups(timeGroups, date)
RECURSIVE CreateEventsFromTimeGroups(_)
CreateEventsFromTimeGroups(timeGroups) ==
    IF timeGroups = <<>> THEN <<>>
    ELSE (IF Len(Head(timeGroups).hourSpikes) >= 2
          THEN <<GridEvent(Head(timeGroups))>> ELSE <<>>)
            \o CreateEventsFromTimeGroups(Tail(timeGroups))

\* generateGridEvents(spikes, date)
GenerateGridEvents(spikes) ==
    [status |-> "returned",
     events |-> IF Len(spikes) = 0 THEN <<>>
                ELSE CreateEventsFromTimeGroups(GroupSpikesByTime(spikes))]

----------------------------------------------------------------------------
(* Spike detection requests *)

\* the first WINDOW_SIZE samples of a series: flat, wide swing, narrow swing
Windows ==
    { <<50, 50, 50, 50, 50, 50>>,
      <<40, 60, 40, 60, 40, 60>>,
      <<49, 51, 49, 51, 49, 51>> }

TailPrices == {50, 55, 57, 60, 65}

\* minutes between two samples of a series
StepMinutes == {5, 15}

\* a price series sampled every step minutes
MakeSeries(location, ps, step) ==
    [location |-> location,
     prices |-> [k \in 1 .. Len(ps) |-> [timestamp |-> (k - 1) * step * 60000,
                                         price |-> R(ps[k])]]]

FirstSeries ==
    { <<>>, <<50, 80, 50>> }
    \cup { w \o t : w \in Windows, t \in SeqsUpTo(TailPrices, MaxTail) }

\* the first location's series when a second location is given
PairedSeries ==
    { <<>>, <<50, 80, 50>> }
    \cup { w \o t : w \in Windows, t \in SeqsUpTo(TailPrices, MaxTail - 1) }

SecondSeries ==
    { <<>>, <<50, 50, 50, 50, 50, 50, 65>>, <<49, 51, 49, 51, 49, 51, 50, 57>>,
      <<50, 50, 50, 50, 50, 50, 100>>, <<50, 50, 50, 50, 50, 50, 101>> }

\* the series of a third location
ThirdSeries ==
    { <<50, 50, 50, 50, 50, 50, 75>>, <<50, 50, 50, 50, 50, 50, 76, 50>>,
      <<50, 50, 50, 50, 50, 50, 76, 50, 76>> }

\* series with one sample far above a flat window
OutageSeries ==
    { <<50, 50, 50, 50, 50, 50, 130>>, <<50, 50, 50, 50, 50, 50, 155>>,
      <<50, 50, 50, 50, 50, 50, 160>>, <<50, 50, 50, 50, 50, 50, 210>> }

\* names of the locations of a request for seven locations
ManyLocations == <<"NP15", "SP15", "ZP26", "DLAP_PGE", "DLAP_SCE", "DLAP_SDGE", "DLAP_VEA">>

\* the series of each of seven locations: one spike after a flat window, or
\* too short to have a sample at the spike's index
ManySeries == { <<50, 50, 50, 50, 50, 50, 65>>, <<50, 50, 50>> }

\* the first location's series when three locations are given
ShortSeries == { w \o <<t>> : w \in Windows, t \in TailPrices }

ThresholdChoices ==
    { <<>>,
      [minMagnitude |-> R(10)],
      [minMagnitude |-> R(2), zScoreThreshold |-> R(3), spatialRadius |-> R(5)] }

SpikeInit ==
    /\ \E step \in StepMinutes :
          \/ priceData = <<>>
          \/ \E a \in FirstSeries : priceData = <<MakeSeries("NP15", a, step)>>
          \/ \E a \in PairedSeries, b \in SecondSeries :
                priceData = <<MakeSeries("NP15", a, step), MakeSeries("SP15", b, step)>>
          \/ \E a \in OutageSeries, b \in OutageSeries :
                priceData = <<MakeSeries("NP15", a, step), MakeSeries("SP15", b, step)>>
          \/ \E ch \in [1 .. Len(ManyLocations) -> ManySeries] :
                priceData = [k \in 1 .. Len(ManyLocations) |->
                                MakeSeries(ManyLocations[k], ch[k], step)]
          \/ \E a \in ShortSeries, b \in SecondSeries, c \in ThirdSeries :
                priceData = <<MakeSeries("NP15", a, step), MakeSeries("SP15", b, step),
                              MakeSeries("ZP26", c, step)>>
    /\ thresholds \in ThresholdChoices
    /\ detection = NoValue
    /\ eventSpikes = <<>> /\ events = NoValue
    /\ ReconIdle
    /\ SettleIdle
    /\ HookIdle
    /\ RateIdle
    /\ CacheIdle
    /\ RetryIdle
    /\ QueueIdle
    /\ CtrlIdle

\* detectSpikes(priceData, thresholds)
DetectSpikesCall ==
    /\ detection = NoValue
    /\ detection' = DetectSpikes(priceData, thresholds)
    /\ UNCHANGED <<priceData, thresholds, eventSpikes, events, reconVars, settleVars, hookVars, rateVars, cacheVars,
                 retryVars, queueVars, ctrlVars>>

\* generateGridEvents(spikes, date) on the returned spikes, on the spikes
\* before filtering, or on an empty list
GenerateGridEventsCall ==
    /\ detection # NoValue
    /\ events = NoValue
    /\ eventSpikes' \in (IF detection.status = "returned"
                         THEN {detection.spikes, detection.detected, <<>>}
                         ELSE {<<>>})
    /\ events' = GenerateGridEvents(eventSpikes')
    /\ UNCHANGED <<priceData, thresholds, detection, reconVars, settleVars, hookVars, rateVars, cacheVars,
                 retryVars, queueVars, ctrlVars>>

SpikeNext == DetectSpikesCall \/ GenerateGridEventsCall

SpecSpike == SpikeInit /\ [][SpikeNext]_vars

----------------------------------------------------------------------------
(* Properties of the spike detection *)

Detected == detection.status = "returned"

\* index i (0-based) of location li (0-based) is flagged before filtering
Flagged(li, i) ==
    \E k \in 1 .. Len(detection.detected) : detection.detected[k].id = <<li, i>>

\* the trigger rule on integers: with S the sum of the 6 preceding prices,
\* 6 * magnitude = |6 p - S| and 216 * variance = sum of (6 p_j - S)^2; the
\* threshold is a / b
TriggerRule(ps, i, config) ==
    LET p(j) == ps[j + 1].price[1]
        S == p(i - 6) + p(i - 5) + p(i - 4) + p(i - 3) + p(i - 2) + p(i - 1)
        m6 == Abs(6 * p(i) - S)
        d(j) == (6 * p(j) - S) * (6 * p(j) - S)
        V == d(i - 6) + d(i - 5) + d(i - 4) + d(i - 3) + d(i - 2) + d(i - 1)
        a == config.zScoreThreshold[1]
        b == config.zScoreThreshold[2]
        mn == config.minMagnitude[1]
        zAbove == V > 0 /\ 6 * m6 * m6 * b * b > a * a * V
    IN  \/ zAbove /\ m6 > 6 * mn
        \/ m6 > 12 * mn

\* C10: index i of a location's series is flagged as a spike iff i >= 6 and,
\* with mean and population standard deviation over the 6 preceding samples,
\* (zScore > zScoreThreshold and magnitude > minMagnitude) or
\* magnitude > 2 * minMagnitude (zScore is 0 when the deviation is 0); no
\* index below 6 is flagged.
C10_TriggerRule ==
    Detected =>
        \A li \in 0 .. Len(priceData) - 1 :
            \A i \in 0 .. Len(priceData[li + 1].prices) - 1 :
                Flagged(li, i) <=>
                    (i >= 6 /\ TriggerRule(priceData[li + 1].prices, i, MergeConfig(thresholds)))

\* a detection with an index flagged by the z-score criterion alone
\* (magnitude <= 2 * minMagnitude), an index flagged by magnitude alone
\* (zScore <= zScoreThreshold) and an index past the window that is not flagged
C10_Witness ==
    /\ Detected
    /\ LET c == MergeConfig(thresholds)
       IN  /\ \E x \in 1 .. Len(detection.detected) :
                 RLe(detection.detected[x].magnitude, RMul(c.minMagnitude, R(2)))
           /\ \E x \in 1 .. Len(detection.detected) :
                 ~ZScoreAbove(detection.detected[x].zScoreSq, c.zScoreThreshold)
           /\ \E li \in 0 .. Len(priceData) - 1 :
                 \E k \in 6 .. Len(priceData[li + 1].prices) - 1 : ~Flagged(li, k)

\* magnitude of a spike compared with an integer bound
MagnitudeAbove(spike, bound) == spike.magnitude[1] > bound * spike.magnitude[2]

MagnitudeIs(spike, bound) == spike.magnitude[1] = bound * spike.magnitude[2]

\* C11: the severity of every flagged spike is critical for magnitude > 50,
\* else high for magnitude > 25, else medium for magnitude > 10, else low, with
\* strict comparisons: magnitude exactly 50 is high, exactly 25 is medium and
\* exactly 10 is low.
C11_SeverityStrict ==
    Detected =>
        \A k \in 1 .. Len(detection.detected) :
            LET sp == detection.detected[k]
            IN  /\ sp.severity = "critical" <=> MagnitudeAbove(sp, 50)
                /\ sp.severity = "high" <=> (MagnitudeAbove(sp, 25) /\ ~MagnitudeAbove(sp, 50))
                /\ sp.severity = "medium" <=> (MagnitudeAbove(sp, 10) /\ ~MagnitudeAbove(sp, 25))
                /\ sp.severity = "low" <=> ~MagnitudeAbove(sp, 10)
                /\ MagnitudeIs(sp, 50) => sp.severity = "high"
                /\ MagnitudeIs(sp, 25) => sp.severity = "medium"
                /\ MagnitudeIs(sp, 10) => sp.severity = "low"

\* a detection with spikes of magnitude exactly 10, exactly 25 and exactly 50
C11_Witness ==
    /\ Detected
    /\ \A bound \in {10, 25, 50} :
          \E k \in 1 .. Len(detection.detected) :
              MagnitudeIs(detection.detected[k], bound)

\* the spike is in the list detectSpikes returns
InReturned(sp) ==
    \E k \in 1 .. Len(detection.spikes) : detection.spikes[k].id = sp.id

\* same location and timestamps less than 15 minutes apart
Within15Minutes(a, b) ==
    /\ a.location = b.location
    /\ Abs(a.timestamp - b.timestamp) < 15 * 60 * 1000

\* C12: of two flagged spikes of one location less than 15 minutes apart,
\* exactly one is in the returned list and it is the one of higher magnitude,
\* whichever of the two comes first in the series.
C12_KeepsHigher ==
    Detected =>
        \A x, y \in 1 .. Len(detection.detected) :
            LET a == detection.detected[x]
                b == detection.detected[y]
            IN  (x < y /\ Within15Minutes(a, b)) =>
                    /\ InReturned(a) # InReturned(b)
                    /\ InReturned(a) => RLe(b.magnitude, a.magnitude)
                    /\ InReturned(b) => RLe(a.magnitude, b.magnitude)

\* the returned list is sorted by magnitude, descending
SortedDescending ==
    \A x, y \in 1 .. Len(detection.spikes) :
        x < y => RLe(detection.spikes[y].magnitude, detection.spikes[x].magnitude)

\* C13 as stated, reading "within 15 minutes" as at most 15 minutes apart: the
\* returned list holds no two spikes of one location at most 15 minutes apart
\* and is sorted by magnitude in descending order.
C13_NoDuplicatesInclusive ==
    Detected =>
        /\ \A x, y \in 1 .. Len(detection.spikes) :
              LET a == detection.spikes[x]
                  b == detection.spikes[y]
              IN  (x # y /\ a.location = b.location) =>
                      Abs(a.timestamp - b.timestamp) > 15 * 60 * 1000
        /\ SortedDescending

\* C13 amended: the returned list holds no two spikes of one location less
\* than 15 minutes apart (two spikes exactly 15 minutes apart can both be
\* returned) and is sorted by magnitude in descending order.
C13_NoDuplicatesSorted ==
    Detected =>
        /\ \A x, y \in 1 .. Len(detection.spikes) :
              (x # y) => ~Within15Minutes(detection.spikes[x], detection.spikes[y])
        /\ SortedDescending

\* position of a spike in the list before filtering
DetectedAt(sp) ==
    CHOOSE k \in 1 .. Len(detection.detected) : detection.detected[k].id = sp.id

\* a detection where a duplicate was dropped and the sort moved a spike in
\* front of one that was detected before it
C13_Witness ==
    /\ Detected
    /\ Len(detection.spikes) < Len(detection.detected)
    /\ \E x, y \in 1 .. Len(detection.spikes) :
          /\ x < y
          /\ DetectedAt(detection.spikes[x]) > DetectedAt(detection.spikes[y])

----------------------------------------------------------------------------
(* Properties of the grid events *)

Generated == events # NoValue

\* positions of the given spikes that fall in hour-of-day h
SpikesOfHour(h) ==
    {k \in 1 .. Len(eventSpikes) : (eventSpikes[k].timestamp \div 3600000) % 24 = h}

\* positions of the events of hour-of-day h
EventsOfHour(h) ==
    {e \in 1 .. Len(events.events) : events.events[e].hour = h}

\* C14: generateGridEvents returns exactly one event for each hour-of-day
\* holding at least 2 of the given spikes and none for an hour holding fewer;
\* an event's affectedLocations are the locations of all and only the spikes of
\* its hour; an empty spike list yields no events.
C14_EventsFromCoHourSpikes ==
    Generated =>
        /\ \A h \in 0 .. 23 :
              Cardinality(EventsOfHour(h)) =
                  (IF Cardinality(SpikesOfHour(h)) >= 2 THEN 1 ELSE 0)
        /\ \A e \in 1 .. Len(events.events) :
              LET ev == events.events[e]
                  locs == ev.affectedLocations
              IN  /\ ev.hour \in 0 .. 23
                  /\ Len(locs) = Cardinality(SpikesOfHour(ev.hour))
                  /\ Len(locs) >= 2
                  /\ \A l \in {"NP15", "SP15", "ZP26"} :
                        Cardinality({k \in 1 .. Len(locs) : locs[k] = l}) =
                        Cardinality({k \in SpikesOfHour(ev.hour) : eventSpikes[k].location = l})
        /\ eventSpikes = <<>> => events.events = <<>>

\* a call that returned an event for an hour of 3 or more spikes while
\* another hour held a single spike
C14_Witness ==
    /\ Generated
    /\ \E e \in 1 .. Len(events.events) : Len(events.events[e].affectedLocations) >= 3
    /\ \E h \in 0 .. 23 : Cardinality(SpikesOfHour(h)) = 1

----------------------------------------------------------------------------
(* useTradingSimulation: addBid, updateBid, removeBid, runSimulation *)

\* hourBids.length >= 10
MaxBidsPerHour == 10

\* bids.filter(bid => bid.hour === hour).length
HourBidCount(list, hour) ==
    Cardinality({k \in 1 .. Len(list) : list[k].hour = hour})

\* hours a bid form can carry
FormHours == {0, 1}

\* bid lists built by n0 + n1 addBid calls, each followed by a render
BuiltBids(n0, n1) ==
    [k \in 1 .. n0 + n1 |-> [id |-> k, hour |-> IF k <= n0 THEN 0 ELSE 1]]

HookInit ==
    /\ \E n0 \in {0, MaxBidsPerHour - 1, MaxBidsPerHour}, n1 \in {0, 1} :
          /\ hookBids = BuiltBids(n0, n1)
          /\ nextId = n0 + n1 + 1
    /\ renderedBids = hookBids
    /\ ops = 0
    /\ request = NoValue
    /\ ReconIdle
    /\ SettleIdle
    /\ SpikeIdle
    /\ RateIdle
    /\ CacheIdle
    /\ RetryIdle
    /\ QueueIdle
    /\ CtrlIdle

\* addBid(bidData): the limit is tested on the bids of the last render, the
\* new bid is appended by the queued updater
AddBid(hour) ==
    /\ ops < MaxHookOps
    /\ ops' = ops + 1
    /\ IF HourBidCount(renderedBids, hour) >= MaxBidsPerHour
       THEN UNCHANGED <<hookBids, nextId>>
       ELSE /\ hookBids' = Append(hookBids, [id |-> nextId, hour |-> hour])
            /\ nextId' = nextId + 1
    /\ UNCHANGED <<renderedBids, request, reconVars, settleVars, spikeVars, rateVars, cacheVars,
                 retryVars, queueVars, ctrlVars>>

\* updateBid(id, { hour })
UpdateBid(id, hour) ==
    /\ ops < MaxHookOps
    /\ ops' = ops + 1
    /\ hookBids' = [k \in 1 .. Len(hookBids) |->
                      IF hookBids[k].id = id
                      THEN [hookBids[k] EXCEPT !.hour = hour]
                      ELSE hookBids[k]]
    /\ UNCHANGED <<renderedBids, nextId, request, reconVars, settleVars, spikeVars, rateVars, cacheVars,
                 retryVars, queueVars, ctrlVars>>

\* removeBid(id)
RemoveBid(id) ==
    /\ ops < MaxHookOps
    /\ ops' = ops + 1
    /\ hookBids' = LET Other(bid) == bid.id # id IN SelectSeq(hookBids, Other)
    /\ UNCHANGED <<renderedBids, nextId, request, reconVars, settleVars, spikeVars, rateVars, cacheVars,
                 retryVars, queueVars, ctrlVars>>

\* the component re-renders: the closures see the current state
Render ==
    /\ renderedBids # hookBids
    /\ renderedBids' = hookBids
    /\ UNCHANGED <<hookBids, nextId, ops, request, reconVars, settleVars, spikeVars, rateVars, cacheVars,
                 retryVars, queueVars, ctrlVars>>

\* runSimulation(date): simulationMutation.mutate({ bids, date })
RunSimulation ==
    /\ request = NoValue
    /\ Len(renderedBids) > 0
    /\ request' = [status |-> "sent", bids |-> renderedBids]
    /\ UNCHANGED <<hookBids, renderedBids, nextId, ops, reconVars, settleVars, spikeVars, rateVars, cacheVars,
                 retryVars, queueVars, ctrlVars>>

HookNext ==
    \/ \E hour \in FormHours : AddBid(hour)
    \/ \E id \in 1 .. nextId, hour \in FormHours : UpdateBid(id, hour)
    \/ \E id \in 1 .. nextId : RemoveBid(id)
    \/ Render
    \/ RunSimulation

SpecHook == HookInit /\ [][HookNext]_vars

\* C15: the hook's bid list holds at most 10 bids for each hour, and so does
\* every simulation request it sends.
C15_AtMostTenPerHour ==
    \A hour \in 0 .. 23 :
        /\ HourBidCount(hookBids, hour) <= 10
        /\ request # NoValue => HourBidCount(request.bids, hour) <= 10

----------------------------------------------------------------------------
(* DataCache: set, get, clear, size, cleanup *)

\* constructor argument ttlMinutes
TtlMinutes == 1

\* this.ttl = ttlMinutes * 60 * 1000
Ttl == TtlMinutes * 60 * 1000

\* granularity of the cache clock
CacheTickMs == 30000

\* data values passed to set: "null" is null, "undefined" is undefined and
\* "circular" is a value JSON.stringify fails on (an object that refers to
\* itself, a BigInt, a function)
Payloads == {"d1", "d2", "null", "undefined", "circular"}

\* JSON.stringify(cached.data) throws, or returns no string
Unserialisable(data) == data = "circular"

\* this.cache.size
Size(c) == Cardinality({k \in CacheKeys : c[k] # NoValue})

\* Date.now() >= cached.expiry in place of >
ExpiredInclusive(now, entry) == now >= entry.expiry

\* Date.now() > cached.expiry
Expired(now, entry) == now > entry.expiry

CacheInit ==
    /\ cache = [k \in CacheKeys |-> NoValue]
    /\ cacheStats = [hits |-> 0, misses |-> 0, sets |-> 0, deletes |-> 0]
    /\ cacheNow = 0
    /\ written = [k \in CacheKeys |-> NoValue]
    /\ lastOp = NoValue
    /\ cacheOps = 0
    /\ ReconIdle
    /\ SettleIdle
    /\ SpikeIdle
    /\ HookIdle
    /\ RateIdle
    /\ RetryIdle
    /\ QueueIdle
    /\ CtrlIdle

\* time passes
CacheTick ==
    /\ cacheNow < MaxCacheTicks * CacheTickMs
    /\ cacheNow' = cacheNow + CacheTickMs
    /\ UNCHANGED <<cache, cacheStats, written, lastOp, cacheOps,
                   reconVars, settleVars, spikeVars, hookVars, rateVars,
                 retryVars, queueVars, ctrlVars>>

\* set(endpoint, params, data)
CacheSet(params, data) ==
    LET key == GenerateKey("market-data", params)
    IN  /\ cacheOps < MaxCacheOps
        /\ cacheOps' = cacheOps + 1
        /\ cache' = [cache EXCEPT ![key] =
                        [status |-> "entry", data |-> data, expiry |-> cacheNow + Ttl,
                         createdAt |-> cacheNow, accessCount |-> 0, lastAccessed |-> -1]]
        /\ cacheStats' = [cacheStats EXCEPT !.sets = @ + 1]
        /\ written' = [written EXCEPT ![key] = [status |-> "written", data |-> data, at |-> cacheNow]]
        /\ lastOp' = [op |-> "set", key |-> key, result |-> "undefined"]
        /\ UNCHANGED <<cacheNow, reconVars, settleVars, spikeVars, hookVars, rateVars,
                 retryVars, queueVars, ctrlVars>>

\* get(endpoint, params)
CacheGet(params) ==
    LET key == GenerateKey("market-data", params)
        cached == cache[key]
    IN  /\ cacheOps < MaxCacheOps
        /\ cacheOps' = cacheOps + 1
        /\ IF cached = NoValue
           THEN /\ cacheStats' = [cacheStats EXCEPT !.misses = @ + 1]
                /\ lastOp' = [op |-> "get", key |-> key, result |-> "null"]
                /\ UNCHANGED cache
           ELSE IF \/ Expired(cacheNow, cached)
                   \/ cached.data \in {"null", "undefined"}
                   \/ Unserialisable(cached.data)
           THEN /\ cache' = [cache EXCEPT ![key] = NoValue]
                /\ cacheStats' = [cacheStats EXCEPT !.misses = @ + 1, !.deletes = @ + 1]
                /\ lastOp' = [op |-> "get", key |-> key, result |-> "null"]
           ELSE /\ cache' = [cache EXCEPT ![key].accessCount = @ + 1,
                                          ![key].lastAccessed = cacheNow]
                /\ cacheStats' = [cacheStats EXCEPT !.hits = @ + 1]
                /\ lastOp' = [op |-> "get", key |-> key, result |-> cached.data]
        /\ UNCHANGED <<cacheNow, written, reconVars, settleVars, spikeVars, hookVars, rateVars,
                 retryVars, queueVars, ctrlVars>>

\* clear()
CacheClear ==
    /\ cacheOps < MaxCacheOps
    /\ cacheOps' = cacheOps + 1
    /\ cache' = [k \in CacheKeys |-> NoValue]
    /\ cacheStats' = [cacheStats EXCEPT !.deletes = @ + Size(cache)]
    /\ written' = [k \in CacheKeys |-> NoValue]
    /\ lastOp' = [op |-> "clear", key |-> NoValue, result |-> "undefined"]
    /\ UNCHANGED <<cacheNow, reconVars, settleVars, spikeVars, hookVars, rateVars,
                 retryVars, queueVars, ctrlVars>>

\* size()
CacheSize ==
    /\ cacheOps < MaxCacheOps
    /\ cacheOps' = cacheOps + 1
    /\ lastOp' = [op |-> "size", key |-> NoValue, result |-> Size(cache)]
    /\ UNCHANGED <<cache, cacheStats, cacheNow, written,
                   reconVars, settleVars, spikeVars, hookVars, rateVars,
                 retryVars, queueVars, ctrlVars>>

\* cleanup()
CacheCleanup ==
    LET expired == {k \in CacheKeys : cache[k] # NoValue /\ cacheNow > cache[k].expiry}
    IN  /\ cacheOps < MaxCacheOps
        /\ cacheOps' = cacheOps + 1
        /\ cache' = [k \in CacheKeys |-> IF k \in expired THEN NoValue ELSE cache[k]]
        /\ cacheStats' = [cacheStats EXCEPT !.deletes = @ + Cardinality(expired)]
        /\ lastOp' = [op |-> "cleanup", key |-> NoValue, result |-> Cardinality(expired)]
        /\ UNCHANGED <<cacheNow, written, reconVars, settleVars, spikeVars, hookVars, rateVars,
                 retryVars, queueVars, ctrlVars>>

CacheNext ==
    \/ CacheTick
    \/ \E params \in ParamObjects, data \in Payloads : CacheSet(params, data)
    \/ \E params \in ParamObjects : CacheGet(params)
    \/ CacheClear
    \/ CacheSize
    \/ CacheCleanup

SpecCache == CacheInit /\ [][CacheNext]_vars

\* the step is a call of get
GetStep == cacheOps' = cacheOps + 1 /\ lastOp'.op = "get"

\* the last set w of a key stored data that is neither null nor undefined and
\* that JSON.stringify accepts
Retrievable(w) == w # NoValue /\ w.data \notin {"null", "undefined", "circular"}

\* C17 as stated: with time-to-live T, a get of a key returns the data of the
\* last set of that key since the last clear() while the time is not past
\* set-time + T, whatever that data is; the first get past that time returns
\* null and removes the entry, so that size() does not count it, and a get of
\* a key never set, or whose entry expired, returns null until the next set.
C17_TimeToLive ==
    [][ GetStep =>
          LET k == lastOp'.key
              w == written[k]
          IN  /\ (w # NoValue /\ cacheNow <= w.at + 60000) => lastOp'.result = w.data
              /\ (w # NoValue /\ cacheNow > w.at + 60000) =>
                    /\ lastOp'.result = "null"
                    /\ cache'[k] = NoValue
                    /\ Size(cache') = Cardinality({j \in CacheKeys \ {k} : cache[j] # NoValue})
              /\ w = NoValue => lastOp'.result = "null"
      ]_vars

\* C17 amended: while the time is not past set-time + T, a get returns the
\* data of the last set of the key since the last clear() when that data is
\* neither null nor undefined and JSON.stringify accepts it, and leaves the
\* entry in place; for null, undefined or unserialisable data it returns null
\* and removes the entry, so that size() does not count it; the first get
\* past set-time + T returns null and removes the entry likewise, and a get
\* of a key never set returns null.
C17_TimeToLiveOfValidData ==
    [][ GetStep =>
          LET k == lastOp'.key
              w == written[k]
              others == Cardinality({j \in CacheKeys \ {k} : cache[j] # NoValue})
          IN  /\ (Retrievable(w) /\ cacheNow <= w.at + 60000) =>
                    /\ lastOp'.result = w.data
                    /\ cache'[k] # NoValue
                    /\ Size(cache') = others + 1
              /\ (w # NoValue /\ ~Retrievable(w) /\ cacheNow <= w.at + 60000) =>
                    /\ lastOp'.result = "null"
                    /\ cache'[k] = NoValue
                    /\ Size(cache') = others
              /\ (w # NoValue /\ cacheNow > w.at + 60000) =>
                    /\ lastOp'.result = "null"
                    /\ cache'[k] = NoValue
                    /\ Size(cache') = others
              /\ w = NoValue => lastOp'.result = "null"
      ]_vars

\* a get past the expiry of a key that was set with data, after an earlier
\* get had returned data
C17_Witness ==
    /\ lastOp # NoValue
    /\ lastOp.op = "get"
    /\ lastOp.result = "null"
    /\ Retrievable(written[lastOp.key])
    /\ cacheNow > written[lastOp.key].at + 60000
    /\ cacheStats.hits > 0

\* a get, within the time-to-live, of a key that was set with unserialisable
\* data: null is returned and the entry is gone
C17_WitnessUnserialisable ==
    /\ lastOp # NoValue
    /\ lastOp.op = "get"
    /\ lastOp.result = "null"
    /\ written[lastOp.key] # NoValue
    /\ written[lastOp.key].data = "circular"
    /\ cacheNow <= written[lastOp.key].at + 60000
    /\ cache[lastOp.key] = NoValue
    /\ cacheStats.deletes = 1

----------------------------------------------------------------------------
(* Properties of the day-ahead gap filling *)

\* positions of the valid day-ahead records of source hour q
ObservedRecords(q) ==
    {i \in 1 .. Len(dayAheadData) :
        ~Skipped(dayAheadData[i]) /\ PacificHour(dayAheadData[i]) = q}

\* mean of the valid day-ahead prices of source hour q
ObservedMean(q) ==
    LET RECURSIVE Total(_)
        Total(S) == IF S = {} THEN R(0)
                    ELSE LET i == CHOOSE x \in S : TRUE
                         IN  RAdd(R(ParsePrice(dayAheadData[i])), Total(S \ {i}))
    IN  RDivI(Total(ObservedRecords(q)), Cardinality(ObservedRecords(q)))

\* target hour h lacks day-ahead source data
LacksData(h) == out.dayAheadPrices[h + 1].recordCount = 0

\* the source hour after the one of target hour h
ForwardHour(h) ==
    LET sh == out.dayAheadPrices[h + 1].sourceHour
    IN  IF sh \in 0 .. 23 THEN (sh + 1) % 24 ELSE sh

\* the price of target hour h traces back to an observed record
RECURSIVE FromObserved(_)
FromObserved(h) ==
    \/ ~LacksData(h)
    \/ ObservedRecords(ForwardHour(h)) # {}
    \/ h > 0 /\ FromObserved(h - 1)

\* C18: a target hour lacking day-ahead data is in fallbackHours when its price
\* comes only from the default price and in interpolatedHours only when its
\* price comes from observed data; with no valid day-ahead record, every hour
\* is in fallbackHours and none in interpolatedHours.
C18_FallbackWhenOnlyDefault ==
    Returned =>
        /\ \A h \in 0 .. 23 :
              LacksData(h) =>
                  /\ ~FromObserved(h) => h \in SeqToSet(out.metadata.fallbackHours)
                  /\ h \in SeqToSet(out.metadata.interpolatedHours) => FromObserved(h)
        /\ (\A q \in 0 .. 24 : ObservedRecords(q) = {}) =>
              /\ SeqToSet(out.metadata.fallbackHours) = 0 .. 23
              /\ out.metadata.interpolatedHours = <<>>

\* the price of the previous target hour
PreviousPrice(h) == out.dayAheadPrices[h].price

\* the midpoint of the previous price and a forward mean, or the one that
\* exists, or the default 50
FilledPrice(h, hasForward, forwardMean) ==
    IF h > 0 /\ hasForward THEN RDivI(RAdd(PreviousPrice(h), forwardMean), 2)
    ELSE IF h > 0 THEN PreviousPrice(h)
    ELSE IF hasForward THEN forwardMean
    ELSE R(50)

\* the nearest source hour after the one of target hour h, going forward and
\* around the day, whose bucket has data (24 when there is none)
NearestForwardHour(h) ==
    LET sh == out.dayAheadPrices[h + 1].sourceHour
        steps == {d \in 1 .. 23 : ObservedRecords((sh + d) % 24) # {}}
    IN  IF sh \notin 0 .. 23 \/ steps = {} THEN 24
        ELSE (sh + (CHOOSE d \in steps : \A e \in steps : d <= e)) % 24

\* C19 as stated: the filled price of a target hour lacking day-ahead data is
\* the midpoint of the previous target hour's price and the mean of the nearest
\* forward source-hour bucket that has data, a copy of the one neighbour that
\* exists, or 50 when neither exists.
C19_NearestForwardBucket ==
    Returned =>
        \A h \in 0 .. 23 :
            LacksData(h) =>
                LET q == NearestForwardHour(h)
                IN  out.dayAheadPrices[h + 1].price =
                        FilledPrice(h, ObservedRecords(q) # {},
                                    IF ObservedRecords(q) # {} THEN ObservedMean(q) ELSE R(0))

\* C19 amended: the forward neighbour is the bucket of the very next source
\* hour, (sourceHour + 1) mod 24, and exists only when that bucket has data.
C19_AdjacentForwardBucket ==
    Returned =>
        \A h \in 0 .. 23 :
            LacksData(h) =>
                LET q == ForwardHour(h)
                IN  out.dayAheadPrices[h + 1].price =
                        FilledPrice(h, ObservedRecords(q) # {},
                                    IF ObservedRecords(q) # {} THEN ObservedMean(q) ELSE R(0))

\* a result with a gap hour filled by a midpoint that differs from both
\* neighbours and a gap hour that copies its previous hour
C19_Witness ==
    /\ Returned
    /\ \E h \in 1 .. 23 :
          /\ LacksData(h)
          /\ ObservedRecords(ForwardHour(h)) # {}
          /\ out.dayAheadPrices[h + 1].price # PreviousPrice(h)
          /\ out.dayAheadPrices[h + 1].price # ObservedMean(ForwardHour(h))
    /\ \E h \in 1 .. 23 :
          /\ LacksData(h)
          /\ ObservedRecords(ForwardHour(h)) = {}
          /\ out.dayAheadPrices[h + 1].price = PreviousPrice(h)

\* a result whose first hour lacks data and is filled from the forward bucket
\* alone
C19_WitnessFirstHour ==
    /\ Returned
    /\ LacksData(0)
    /\ ObservedRecords(ForwardHour(0)) # {}
    /\ out.dayAheadPrices[1].price = ObservedMean(ForwardHour(0))

----------------------------------------------------------------------------
(* Properties of the real-time hours *)

\* positions of the valid real-time records of source hour q
HourRecords(q) ==
    {i \in 1 .. Len(realTimeData) :
        ~Skipped(realTimeData[i]) /\ PacificHour(realTimeData[i]) = q}

\* those of quarter-hour interval k
IntervalRecords(q, k) ==
    {i \in HourRecords(q) : realTimeData[i].ts = "ok" /\ realTimeData[i].m \div 15 = k}

\* mean of the prices of the real-time records at the positions S
RECURSIVE TotalPrice(_)
TotalPrice(S) ==
    IF S = {} THEN R(0)
    ELSE LET i == CHOOSE x \in S : TRUE
         IN  RAdd(R(ParsePrice(realTimeData[i])), TotalPrice(S \ {i}))

MeanPrice(S) == RDivI(TotalPrice(S), Cardinality(S))

\* |a - b| <= 2.5
Within2_5(a, b) == RLe(RAbs(RSub(a, b)), <<5, 2>>)

\* C20: a real-time hour with records in all 4 intervals is actual and each
\* interval price is the mean of the interval's records; with records in some
\* but not all intervals it is partial, a missing interval holding the mean of
\* all the hour's records with quality fallback; with no record it is fallback
\* with recordCount 0 and 4 fallback intervals, each within 2.5 of the target
\* hour's day-ahead price.
C20_RealTimeQuality ==
    Returned =>
        \A h \in 0 .. 23 :
            LET e == out.realTimePrices[h + 1]
                q == e.sourceHour
                present == {k \in 0 .. 3 : IntervalRecords(q, k) # {}}
            IN  /\ present = 0 .. 3 => e.dataQuality = "actual"
                /\ (present # {} /\ present # 0 .. 3) => e.dataQuality = "partial"
                /\ present # {} =>
                      /\ e.recordCount = Cardinality(HourRecords(q))
                      /\ \A k \in 0 .. 3 :
                            IF k \in present
                            THEN /\ e.prices[k + 1].price = MeanPrice(IntervalRecords(q, k))
                                 /\ e.prices[k + 1].dataQuality = "actual"
                            ELSE /\ e.prices[k + 1].price = MeanPrice(HourRecords(q))
                                 /\ e.prices[k + 1].dataQuality = "fallback"
                /\ HourRecords(q) = {} =>
                      /\ e.dataQuality = "fallback"
                      /\ e.recordCount = 0
                      /\ \A k \in 0 .. 3 :
                            /\ e.prices[k + 1].dataQuality = "fallback"
                            /\ Within2_5(e.prices[k + 1].price, out.dayAheadPrices[h + 1].price)

\* a result with an hour of 4 populated intervals and a fallback hour whose
\* interval price is 2.5 under its day-ahead price
C20_Witness ==
    /\ Returned
    /\ \E h \in 0 .. 23 : out.realTimePrices[h + 1].dataQuality = "actual"
    /\ \E h \in 0 .. 23, k \in 1 .. 4 :
          /\ out.realTimePrices[h + 1].dataQuality = "fallback"
          /\ RSub(out.dayAheadPrices[h + 1].price, out.realTimePrices[h + 1].prices[k].price) = <<5, 2>>

----------------------------------------------------------------------------
(* Properties of the record parsing *)

\* the price field the first-present rule resolves: lmp when the record has
\* it (also with value 0), the next alias otherwise
FirstPresentPrice(item) ==
    IF item.lmp # 0 \/ "lmpPresent" \in DOMAIN item THEN item.lmp ELSE item.price

\* the record is an object, its timestamp parses and its first present price
\* lies in (0, 10000]
UsableRecord(item) ==
    /\ item.obj = "object"
    /\ item.ts = "ok"
    /\ FirstPresentPrice(item) > 0
    /\ FirstPresentPrice(item) <= 10000

\* number of usable records of source hour q in a raw array
UsableCount(data, q) ==
    Cardinality({i \in 1 .. Len(data) : UsableRecord(data[i]) /\ data[i].h = q})

\* C21: the price of a raw record is its first present price alias (also when
\* that field is 0), and the record is used if and only if this price lies in
\* (0, 10000] and the timestamp parses: every hour of the result counts
\* exactly the usable records of its source hour.
C21_UsedIffValid ==
    Returned =>
        \A h \in 0 .. 23 :
            /\ out.dayAheadPrices[h + 1].recordCount =
                  UsableCount(dayAheadData, out.dayAheadPrices[h + 1].sourceHour)
            /\ out.realTimePrices[h + 1].recordCount =
                  UsableCount(realTimeData, out.realTimePrices[h + 1].sourceHour)

----------------------------------------------------------------------------
(* Properties of the event class and confidence *)

\* C22: the type and severity of an event follow the average magnitude of its
\* hour's spikes in three classes: above 100 the outage type with the highest
\* severity, above 75 and up to 100 the congestion type with the middle
\* severity, and the lowest severity for any lower average.
C22_ThreeClasses ==
    Generated =>
        \A e \in 1 .. Len(events.events) :
            LET ev == events.events[e]
                avg == ev.estimatedImpact
            IN  IF RLt(R(100), avg)
                THEN ev.type = "transmission_outage" /\ ev.severity = "high"
                ELSE IF RLt(R(75), avg)
                THEN ev.type = "congestion" /\ ev.severity = "medium"
                ELSE ev.type # "transmission_outage" /\ ev.severity = "low"

\* sum of the magnitudes of the given spikes at the positions S
RECURSIVE TotalMagnitude(_)
TotalMagnitude(S) ==
    IF S = {} THEN R(0)
    ELSE LET k == CHOOSE x \in S : TRUE
         IN  RAdd(eventSpikes[k].magnitude, TotalMagnitude(S \ {k}))

\* average magnitude of the given spikes of hour-of-day h
HourAverage(h) == RDivI(TotalMagnitude(SpikesOfHour(h)), Cardinality(SpikesOfHour(h)))

\* C23 as stated: the confidence of an event built from count spikes with
\* average magnitude avgMagnitude is min(0.5 + 0.1 * count + avgMagnitude / 200,
\* 0.95); it never exceeds 0.95 and is at least 0.7.
C23_ConfidenceSum ==
    Generated =>
        \A e \in 1 .. Len(events.events) :
            LET ev == events.events[e]
                count == Cardinality(SpikesOfHour(ev.hour))
                sum == RAdd(RAdd(<<1, 2>>, <<count, 10>>), RDivI(HourAverage(ev.hour), 200))
            IN  /\ ev.confidence = (IF RLt(<<95, 100>>, sum) THEN <<95, 100>> ELSE sum)
                /\ RLe(ev.confidence, <<95, 100>>)
                /\ RLe(<<7, 10>>, ev.confidence)

\* C23 amended: each of the two increments is capped before the sum, 0.1 *
\* count at 0.3 and avgMagnitude / 200 at 0.2; the confidence is
\* min(0.5 + min(0.1 * count, 0.3) + min(avgMagnitude / 200, 0.2), 0.95), never
\* above 0.95 and at least 0.7.
C23_ConfidenceCappedSum ==
    Generated =>
        \A e \in 1 .. Len(events.events) :
            LET ev == events.events[e]
                count == Cardinality(SpikesOfHour(ev.hour))
                byCount == IF count > 3 THEN <<3, 10>> ELSE <<count, 10>>
                share == RDivI(HourAverage(ev.hour), 200)
                byMagnitude == IF RLt(<<2, 10>>, share) THEN <<2, 10>> ELSE share
                sum == RAdd(RAdd(<<1, 2>>, byCount), byMagnitude)
            IN  /\ ev.confidence = (IF RLt(<<95, 100>>, sum) THEN <<95, 100>> ELSE sum)
                /\ RLe(ev.confidence, <<95, 100>>)
                /\ RLe(<<7, 10>>, ev.confidence)

\* a result with an event of two spikes averaging above 40 whose confidence
\* is 0.9
C23_Witness ==
    /\ Generated
    /\ \E e \in 1 .. Len(events.events) :
          LET ev == events.events[e]
          IN  /\ Len(ev.affectedLocations) = 2
              /\ RLt(R(40), ev.estimatedImpact)
              /\ ev.confidence = <<9, 10>>

\* a result with an event of 4 or more spikes whose confidence is below 0.95
C23_WitnessCountCap ==
    /\ Generated
    /\ \E e \in 1 .. Len(events.events) :
          LET ev == events.events[e]
          IN  /\ Len(ev.affectedLocations) >= 4
              /\ RLt(ev.confidence, <<95, 100>>)

----------------------------------------------------------------------------
(* Properties of the nearby locations *)

\* 0-based indices of the locations other than li that have a sample at time
\* index ti and lie within the merged spatialRadius of li
NearbyCandidates(li, ti) ==
    {j \in 0 .. Len(priceData) - 1 :
        /\ j # li
        /\ ti < Len(priceData[j + 1].prices)
        /\ RLe(R(Abs(j - li) * 10), MergeConfig(thresholds).spatialRadius)}

\* C24: every returned spike has at most 5 nearbyLocations, none of them its
\* own location, each of a location that has a price at the spike's time
\* index, with distance |index of that location - index of the spike's
\* location| * 10, at most spatialRadius.
C24_NearbyLocations ==
    Detected =>
        \A x \in 1 .. Len(detection.spikes) :
            LET sp == detection.spikes[x]
                nb == sp.nearbyLocations
            IN  /\ Len(nb) <= 5
                /\ \A k \in 1 .. Len(nb) :
                      /\ nb[k].location # sp.location
                      /\ \E j \in NearbyCandidates(sp.id[1], sp.id[2]) :
                            /\ priceData[j + 1].location = nb[k].location
                            /\ nb[k].distance = Abs(j - sp.id[1]) * 10

\* a returned spike with 5 nearbyLocations although 6 other locations have a
\* price at its index within the radius, next to a location farther than the
\* radius or without a price at that index
C24_Witness ==
    /\ Detected
    /\ \E x \in 1 .. Len(detection.spikes) :
          LET sp == detection.spikes[x]
          IN  /\ Len(sp.nearbyLocations) = 5
              /\ Cardinality(NearbyCandidates(sp.id[1], sp.id[2])) >= 6
    /\ \E x \in 1 .. Len(detection.spikes) :
          LET sp == detection.spikes[x]
          IN  Cardinality(NearbyCandidates(sp.id[1], sp.id[2])) < Len(priceData) - 1

----------------------------------------------------------------------------
(* Properties of the input validation of detectSpikes *)

\* detectSpikes has been called
Called == detection # NoValue

\* some location series of the request has no price
SomeSeriesEmpty == \E li \in 1 .. Len(priceData) : Len(priceData[li].prices) = 0

\* C25 as stated: detectSpikes fails, with a 400 error, exactly when the
\* location-series list is empty; every non-empty list yields a spike list
\* without error, an empty one included.
C25_OnlyEmptyListFails ==
    Called =>
        /\ detection.status = "threw" <=> Len(priceData) = 0
        /\ detection.status = "threw" => detection.error = "ApiError400"

\* C25 amended: detectSpikes fails with a 400 error when the list is empty;
\* it fails as well when a non-empty list holds a series that has no price;
\* every other non-empty list yields a spike list without error, an empty
\* one included.
C25_EmptyListOrEmptySeriesFails ==
    Called =>
        /\ Len(priceData) = 0 =>
              detection.status = "threw" /\ detection.error = "ApiError400"
        /\ detection.status = "threw" <=> (Len(priceData) = 0 \/ SomeSeriesEmpty)
        /\ detection.status = "returned" <=> (Len(priceData) > 0 /\ ~SomeSeriesEmpty)

\* a call on series of fewer than 7 points each that returned no spike
C25_Witness ==
    /\ Detected
    /\ detection.spikes = <<>>
    /\ \A li \in 1 .. Len(priceData) : Len(priceData[li].prices) < 7

\* a call on a non-empty list that failed
C25_WitnessEmptySeries ==
    /\ Called
    /\ Len(priceData) > 1
    /\ detection.status = "threw"

----------------------------------------------------------------------------
(* Market data caching of the controllers: getMarketData (part_014) and     *)
(* simulateTrades (part_016) over the shared DataCache                      *)

\* number of controller requests, and of clock steps
MaxCtrlRequests == 2
MaxCtrlTicks == 2

\* requests handled at the same time
CtrlSlots == {1, 2}

\* new DataCache(60): entries live 60 minutes
CtrlTtl == 60 * 60 * 1000

\* granularity of the clock: 60 minutes
CtrlTickMs == 60 * 60 * 1000

BaseArgs == [date |-> "2024-01-15", iso |-> "CAISO", tz |-> "America/Los_Angeles"]

\* (date, iso, timezone) of the requests: one base triple and one triple
\* that differs from it in each component
CtrlArgs ==
    { BaseArgs,
      [date |-> "2024-01-16", iso |-> "CAISO", tz |-> "America/Los_Angeles"],
      [date |-> "2024-01-15", iso |-> "ERCOT", tz |-> "America/Los_Angeles"],
      [date |-> "2024-01-15", iso |-> "CAISO", tz |-> "UTC"] }

\* how a GridStatus call ends: with records, with records whose first one is
\* null, or with an error
FetchOutcomes == {"ok", "malformed", "rejected"}

\* createCacheKey and generateKey without the timezone parameter
MarketDataKeyNoTimezone(date, iso, timezone) ==
    <<"market-data", << <<"date", date>>, <<"iso", iso>> >> >>

\* createCacheKey(date, iso, timezone) passed through DataCache.generateKey:
\* the endpoint and the parameters with their values, sorted by name
MarketDataKey(date, iso, timezone) ==
    <<"market-data", << <<"date", date>>, <<"iso", iso>>, <<"timezone", timezone>> >> >>

CtrlKeys == { MarketDataKey(a.date, a.iso, a.tz) : a \in CtrlArgs }

\* transformGridStatusData(dayAheadData, realTimeData, userTimezone, date) of
\* the data that request n fetched
TransformedData(r) ==
    [date |-> r.date, iso |-> r.iso, tz |-> r.tz, by |-> r.n, via |-> r.controller]

\* DataCache.get(key, params) as used by getCachedMarketData: the entry, or
\* NoValue when the cache is missing, the key absent or the entry expired
CachedMarketData(c, now, date, iso, timezone) ==
    IF ~c.available THEN NoValue
    ELSE LET cached == c.entries[MarketDataKey(date, iso, timezone)]
         IN  IF cached = NoValue THEN NoValue
             ELSE IF now > cached.expiry THEN NoValue
             ELSE cached

\* the cache after DataCache.get(key, params): an expired entry is deleted
AfterLookup(c, now, date, iso, timezone) ==
    IF ~c.available THEN c
    ELSE LET key == MarketDataKey(date, iso, timezone)
         IN  IF c.entries[key] # NoValue /\ now > c.entries[key].expiry
             THEN [c EXCEPT !.entries[key] = NoValue]
             ELSE c

\* cacheMarketData(dataCache, date, iso, userTimezone, marketData)
CacheMarketData(c, now, date, iso, timezone, marketData) ==
    IF ~c.available THEN c
    ELSE [c EXCEPT !.entries[MarketDataKey(date, iso, timezone)] =
             [status |-> "entry", data |-> marketData, expiry |-> now + CtrlTtl]]

\* the entry stored under the key of the request, whatever its age
EntryOf(c, r) ==
    IF c.available THEN c.entries[MarketDataKey(r.date, r.iso, r.tz)] ELSE NoValue

\* the summary of a finished request in the history
Finished(r, outcome, served, before, after) ==
    [n |-> r.n, controller |-> r.controller, date |-> r.date, iso |-> r.iso,
     tz |-> r.tz, valid |-> r.valid, startedAt |-> r.startedAt,
     atLookup |-> r.atLookup, calls |-> r.calls, outcome |-> outcome,
     served |-> served, finishedAt |-> ctrlNow, before |-> before, after |-> after]

CtrlInit ==
    /\ ctrlCache \in { [available |-> a, entries |-> [k \in CtrlKeys |-> NoValue]]
                          : a \in BOOLEAN }
    /\ ctrlNow = 0
    /\ ctrlFetches = 0
    /\ ctrlReq = [s \in CtrlSlots |-> NoValue]
    /\ ctrlLog = NoValue
    /\ ctrlOps = 0
    /\ ReconIdle
    /\ SettleIdle
    /\ SpikeIdle
    /\ HookIdle
    /\ RateIdle
    /\ CacheIdle
    /\ RetryIdle
    /\ QueueIdle

\* a request arrives: the part of the controller up to its first await.  A
\* simulateTrades request with invalid bids fails before the cache is read;
\* a cache hit is answered at once; otherwise the first GridStatus call
\* (getMarketPrices / getDayAheadPrices) is started.
CtrlArrives(s, controller, a, valid) ==
    /\ ctrlReq[s] = NoValue
    /\ \A t \in CtrlSlots : t < s => ctrlReq[t] # NoValue
    /\ ctrlOps < MaxCtrlRequests
    /\ ctrlOps' = ctrlOps + 1
    /\ LET r == [n |-> ctrlOps + 1, controller |-> controller, date |-> a.date,
                 iso |-> a.iso, tz |-> a.tz, valid |-> valid, startedAt |-> ctrlNow,
                 atLookup |-> IF valid THEN EntryOf(ctrlCache, a) ELSE NoValue,
                 calls |-> 0, phase |-> "validated"]
           cached == CachedMarketData(ctrlCache, ctrlNow, a.date, a.iso, a.tz)
           looked == AfterLookup(ctrlCache, ctrlNow, a.date, a.iso, a.tz)
       IN  IF ~valid
           THEN /\ ctrlLog' = (
                        Finished(r, "invalid", [status |-> "error", error |-> "ApiError400"],
                                 EntryOf(ctrlCache, a), EntryOf(ctrlCache, a)))
                /\ UNCHANGED <<ctrlCache, ctrlReq, ctrlFetches>>
           ELSE IF cached # NoValue
           THEN /\ ctrlCache' = looked
                /\ ctrlLog' = (
                        Finished(r, "hit", [status |-> "data", data |-> cached.data],
                                 EntryOf(ctrlCache, a), EntryOf(looked, a)))
                /\ UNCHANGED <<ctrlReq, ctrlFetches>>
           ELSE /\ ctrlCache' = looked
                /\ ctrlReq' = [ctrlReq EXCEPT ![s] =
                        [r EXCEPT !.calls = 1,
                                  !.phase = IF controller = "getMarketData"
                                            THEN "marketPrices" ELSE "dayAhead"]]
                /\ ctrlFetches' = ctrlFetches + 1
                /\ UNCHANGED ctrlLog
    /\ UNCHANGED ctrlNow
    /\ UNCHANGED <<reconVars, settleVars, spikeVars, hookVars, rateVars, cacheVars,
                   retryVars, queueVars>>

\* getMarketData (part_014 lines 164-217) up to its first await
GetMarketData(s) ==
    \E a \in CtrlArgs : CtrlArrives(s, "getMarketData", a, TRUE)

\* simulateTrades (part_016 lines 251-308) up to its first await
SimulateTrades(s) ==
    \/ \E a \in CtrlArgs : CtrlArrives(s, "simulateTrades", a, TRUE)
    \/ CtrlArrives(s, "simulateTrades", BaseArgs, FALSE)

\* the rest of the controller once the fetched data is there: the data is
\* transformed, cached and served; a failed fetch or a failed transformation
\* ends the request with an error
CtrlCompletes(s, outcome) ==
    LET r == ctrlReq[s]
        stored == CacheMarketData(ctrlCache, ctrlNow, r.date, r.iso, r.tz, TransformedData(r))
    IN  /\ ctrlReq' = [ctrlReq EXCEPT ![s] = NoValue]
        /\ IF outcome = "ok"
           THEN /\ ctrlCache' = stored
                /\ ctrlLog' = (
                        Finished(r, outcome, [status |-> "data", data |-> TransformedData(r)],
                                 EntryOf(ctrlCache, r), EntryOf(stored, r)))
           ELSE /\ ctrlLog' = (
                        Finished(r, outcome,
                                 [status |-> "error",
                                  error |-> IF outcome = "malformed" THEN "ApiError500"
                                            ELSE "GridStatusError"],
                                 EntryOf(ctrlCache, r), EntryOf(ctrlCache, r)))
                /\ UNCHANGED ctrlCache

\* getMarketData: getMarketPrices settles
MarketPricesFetched(s) ==
    /\ ctrlReq[s] # NoValue
    /\ ctrlReq[s].phase = "marketPrices"
    /\ \E outcome \in FetchOutcomes : CtrlCompletes(s, outcome)
    /\ UNCHANGED <<ctrlNow, ctrlFetches, ctrlOps>>
    /\ UNCHANGED <<reconVars, settleVars, spikeVars, hookVars, rateVars, cacheVars,
                   retryVars, queueVars>>

\* simulateTrades: getDayAheadPrices settles; getRealTimePrices is called
\* unless it failed
DayAheadFetched(s) ==
    /\ ctrlReq[s] # NoValue
    /\ ctrlReq[s].phase = "dayAhead"
    /\ \/ /\ ctrlReq' = [ctrlReq EXCEPT ![s].phase = "realTime", ![s].calls = @ + 1]
          /\ ctrlFetches' = ctrlFetches + 1
          /\ UNCHANGED <<ctrlCache, ctrlLog>>
       \/ /\ CtrlCompletes(s, "rejected")
          /\ UNCHANGED ctrlFetches
    /\ UNCHANGED <<ctrlNow, ctrlOps>>
    /\ UNCHANGED <<reconVars, settleVars, spikeVars, hookVars, rateVars, cacheVars,
                   retryVars, queueVars>>

\* simulateTrades: getRealTimePrices settles
RealTimeFetched(s) ==
    /\ ctrlReq[s] # NoValue
    /\ ctrlReq[s].phase = "realTime"
    /\ \E outcome \in FetchOutcomes : CtrlCompletes(s, outcome)
    /\ UNCHANGED <<ctrlNow, ctrlFetches, ctrlOps>>
    /\ UNCHANGED <<reconVars, settleVars, spikeVars, hookVars, rateVars, cacheVars,
                   retryVars, queueVars>>

\* 60 minutes pass; no request takes that long (the client gives up after
\* requestTimeout), so none is in flight
CtrlTick ==
    /\ ctrlNow < MaxCtrlTicks * CtrlTickMs
    /\ \A s \in CtrlSlots : ctrlReq[s] = NoValue
    /\ ctrlNow' = ctrlNow + CtrlTickMs
    /\ UNCHANGED <<ctrlCache, ctrlFetches, ctrlReq, ctrlLog, ctrlOps>>
    /\ UNCHANGED <<reconVars, settleVars, spikeVars, hookVars, rateVars, cacheVars,
                   retryVars, queueVars>>

\* clearCache (DELETE /api/cache): dataCache?.clear() removes every entry of
\* the shared cache, whatever requests are in flight
ClearCache ==
    /\ ctrlCache' = IF ctrlCache.available
                    THEN [ctrlCache EXCEPT !.entries = [k \in CtrlKeys |-> NoValue]]
                    ELSE ctrlCache
    /\ UNCHANGED <<ctrlNow, ctrlFetches, ctrlReq, ctrlLog, ctrlOps>>
    /\ UNCHANGED <<reconVars, settleVars, spikeVars, hookVars, rateVars, cacheVars,
                   retryVars, queueVars>>

CtrlNext ==
    \/ \E s \in CtrlSlots : GetMarketData(s)
    \/ \E s \in CtrlSlots : SimulateTrades(s)
    \/ \E s \in CtrlSlots : MarketPricesFetched(s)
    \/ \E s \in CtrlSlots : DayAheadFetched(s)
    \/ \E s \in CtrlSlots : RealTimeFetched(s)
    \/ CtrlTick
    \/ ClearCache

SpecCtrl == CtrlInit /\ [][CtrlNext]_vars

\* the finished request r found an unexpired entry when it read the cache
FoundUnexpired(r) ==
    /\ r.valid
    /\ r.atLookup # NoValue
    /\ r.startedAt <= r.atLookup.expiry

\* the data d is market data of the triple of r
DataFor(d, r) == d.date = r.date /\ d.iso = r.iso /\ d.tz = r.tz

\* C30: with a cache configured, (a) a request that found an unexpired entry
\* made no GridStatus call and served the data of that entry, which is data
\* of its own (date, iso, timezone), whichever controller stored it; (b) a
\* valid request that found none made a GridStatus call, and when fetch and
\* transformation succeeded it served its transformed data and left it in
\* the cache under its triple with a fresh lifetime; (c) a request whose
\* fetch or transformation failed served an error and left the entry of its
\* triple as it was; (d) every entry holds data of the triple it is stored
\* under.
C30_CachedByTriple ==
    ctrlCache.available =>
        /\ ctrlLog # NoValue =>
              /\ FoundUnexpired(ctrlLog) =>
                    /\ ctrlLog.calls = 0
                    /\ ctrlLog.served = [status |-> "data", data |-> ctrlLog.atLookup.data]
                    /\ DataFor(ctrlLog.atLookup.data, ctrlLog)
              /\ (ctrlLog.valid /\ ~FoundUnexpired(ctrlLog)) =>
                    /\ ctrlLog.calls >= 1
                    /\ ctrlLog.outcome = "ok" =>
                          /\ ctrlLog.served =
                                [status |-> "data", data |-> TransformedData(ctrlLog)]
                          /\ ctrlLog.after =
                                [status |-> "entry", data |-> TransformedData(ctrlLog),
                                 expiry |-> ctrlLog.finishedAt + CtrlTtl]
                    /\ ctrlLog.outcome # "ok" =>
                          /\ ctrlLog.served.status = "error"
                          /\ ctrlLog.after = ctrlLog.before
        /\ \A a \in CtrlArgs :
              EntryOf(ctrlCache, a) # NoValue => DataFor(EntryOf(ctrlCache, a).data, a)

\* the second request, a simulateTrades request, served without a GridStatus
\* call the entry that the first request, a getMarketData request, had
\* stored for the same triple an hour earlier
C30_Witness ==
    /\ ctrlLog # NoValue
    /\ ctrlLog.n = 2
    /\ ctrlLog.controller = "simulateTrades"
    /\ ctrlLog.outcome = "hit"
    /\ ctrlLog.calls = 0
    /\ ctrlLog.served.data.by = 1
    /\ ctrlLog.served.data.via = "getMarketData"
    /\ ctrlLog.atLookup.expiry = ctrlLog.startedAt

\* a request that found an expired entry fetched again and replaced it
C30_WitnessExpired ==
    /\ ctrlLog # NoValue
    /\ ctrlLog.atLookup # NoValue
    /\ ctrlLog.startedAt > ctrlLog.atLookup.expiry
    /\ ctrlLog.outcome = "ok"
    /\ ctrlLog.calls = 2
    /\ ctrlLog.after.data.by = ctrlLog.n

\* a request whose transformation failed left the cache without an entry
\* for its triple
C30_WitnessFailed ==
    /\ ctrlLog # NoValue
    /\ ctrlCache.available
    /\ ctrlLog.outcome = "malformed"
    /\ ctrlLog.after = NoValue

====
